---- MODULE Spec2Model ----
(***************************************************************************)
(* Streaming conversational pipeline of Dark-Mater:                        *)
(*   - the Stream Orchestrator (CompanyChatService.send_company_message,   *)
(*     McpChatService.send_mcp_message) over the durable store and the     *)
(*     Redis turn cache;                                                   *)
(*   - the Model Gateway (OllamaClient._make_request, _stream_request).    *)
(* Text is a sequence of characters; a delta, a message text and a line    *)
(* are texts, and concatenation is \o.                                     *)
(***************************************************************************)
EXTENDS Integers, Sequences, FiniteSets, TLC

(***************************************************************************)
(* Bounds of the model.                                                    *)
(***************************************************************************)
\* number of chunks the model service streams for one turn
MaxChunks == 2
\* MCP_CHAT_HISTORY_LIMIT, scaled down so that truncation happens
McpHistoryLimit == 2
\* COMPANY_CHAT_HISTORY_LIMIT, scaled down
CompanyHistoryLimit == 3

\* the two request tasks the scheduler interleaves; each serves one request,
\* and request r1 is the first to arrive
Slots == {"r1", "r2"}
TurnOf(s) == IF s = "r1" THEN 1 ELSE 2
\* durable threads (they exist: the caller created them) and cache keys
Threads == {"t1", "t2"}
CacheKeys == {"k1", "k2"}
Conversations == Threads \cup CacheKeys
\* the first request names its conversation t1 or k1
ConversationsOf(s) == IF s = "r1" THEN {"t1", "k1"} ELSE Conversations

TextNames == <<"q1", "q2", "q3", "q4", "q5", "q6">>
DeltaNames == <<"d1", "d2", "d3", "d4", "d5", "d6">>
\* the request text of turn t, and a text that is only whitespace
Text(t) == <<TextNames[t]>>
Blank == <<" ">>
Empty == <<>>
\* str(e) of the exceptions the gateway stream raises
ErrorMessages == {<<"boom">>}
NoError == <<"-">>

VARIABLES
  db,                \* company_chat_messages, in created_at order
  cache,             \* Redis: key -> [present, messages]
  threads,           \* company_chat_threads, by id
  pc,                \* per task: where its generator stands
  turn,              \* per task: the number of its turn
  conv,              \* per task: thread_id, or (server_id, thread_id)
  text,              \* per task: the request text
  history,           \* per task: history / cached_messages
  context,           \* per task: len(rag_chunks) / len(memory_snippets)
  retrieved,         \* per task: what the assembler returned and the calls it made
  chat_messages,     \* per task: messages, the list sent to the model
  chunks,            \* per task: the chunks read from the stream so far
  assistant_content, \* per task
  token_count,       \* per task
  deltas,            \* per task: what the caller has received
  error,             \* per task: str(e) of the exception caught, or NoError
  got,               \* what the last read or clear of a conversation answered
  redis,             \* the keys of Redis, each with the pair whose list it holds
  memory_calls,      \* what the memory service answered to the calls of a task
  history_limit,     \* McpChatService.history_limit
  max_retries,       \* OllamaClient.max_retries
  g_pc,              \* where the gateway request stands
  g_stream,          \* _make_request's stream argument
  g_endpoint,        \* the call: generate, chat or embed
  g_input,           \* what it was called with
  attempt,           \* _make_request's loop variable
  sent,              \* number of requests handed to the transport
  outcomes,          \* what the transport answered to each request sent
  slept,             \* the delays _make_request has slept
  g_result,          \* what the caller of the gateway got
  body,              \* the streamed response body
  pos,               \* how much of it the transport has delivered
  buffer,            \* _stream_request's buffer
  lineno,            \* number of complete lines taken from the buffer
  yielded            \* the lines yielded, by their number in the body

orchestrator == <<db, cache, threads, pc, turn, conv, text, history, context, retrieved,
                  chat_messages, chunks,
                  assistant_content, token_count, deltas, error, got,
                  redis, memory_calls, history_limit>>
gateway == <<max_retries, g_pc, g_stream, g_endpoint, g_input, attempt, sent, outcomes,
             slept, g_result, body, pos, buffer, lineno, yielded>>
vars == <<orchestrator, gateway>>

stores == <<db, cache, threads>>
locals == <<turn, conv, text, history, context, retrieved, chat_messages,
            chunks,
            assistant_content,
            token_count, deltas, error>>

IsCompany(s) == conv[s] \in Threads
ModelOf(c) == IF c \in Threads THEN "COMPANY_MODEL" ELSE "MCP_MODEL"

(***************************************************************************)
(* Pure helpers.                                                           *)
(***************************************************************************)
\* Python seq[-n:]  (seq[-0:] is seq[0:], the whole list)
LastN(seq, n) ==
  IF n = 0 \/ n >= Len(seq) THEN seq
  ELSE SubSeq(seq, Len(seq) - n + 1, Len(seq))

\* only the empty text is refused
IsBlankEmptyOnly(str) == str = <<>>

\* str.strip() == ""
IsBlank(str) == \A i \in 1..Len(str) : str[i] = " "

RECURSIVE Filter(_, _, _)
Filter(seq, thread, i) ==
  IF i > Len(seq) THEN <<>>
  ELSE IF seq[i].thread_id = thread
       THEN <<seq[i]>> \o Filter(seq, thread, i + 1)
       ELSE Filter(seq, thread, i + 1)

\* the list as the query returns it, before messages.reverse()
NotReversed(seq) == seq

\* messages.reverse()
Reverse(seq) == [i \in 1..Len(seq) |-> seq[Len(seq) + 1 - i]]

\* ORDER BY created_at DESC: every order of the rows in which no row comes
\* before a row created later; rows created at the same time come in any
\* order
RECURSIVE DescOrders(_, _)
DescOrders(rows, S) ==
  IF S = {} THEN {<<>>}
  ELSE UNION {{<<i>> \o rest : rest \in DescOrders(rows, S \ {i})} :
                i \in {j \in S : \A k \in S :
                                   rows[j].created_at >= rows[k].created_at}}

OrderByCreatedAtDesc(rows) ==
  {[i \in 1..Len(rows) |-> rows[p[i]]] :
     p \in DescOrders(rows, 1..Len(rows))}

\* LIMIT n
Limit(seq, n) == SubSeq(seq, 1, IF n < Len(seq) THEN n ELSE Len(seq))

\* SELECT ... WHERE thread_id = T ORDER BY created_at DESC LIMIT n, reversed:
\* the lists the query can answer with
get_messages(rows, thread, limit) ==
  {Reverse(Limit(ordered, limit)) :
     ordered \in OrderByCreatedAtDesc(Filter(rows, thread, 1))}

\* the hour of setex(key, 3600, ...), in ticks of the clock
TtlTicks == 2

\* a key Redis does not hold
Absent == [present |-> FALSE, messages |-> <<>>, ttl |-> 0, age |-> 0]

\* setex(key, 3600, value): the value, to expire 3600 s from now; age counts
\* the ticks since the write
Cached(messages) ==
  [present |-> TRUE, messages |-> messages, ttl |-> TtlTicks, age |-> 0]

\* McpChatService._get_cached_messages
get_cached_messages(c, key) ==
  IF c[key].present THEN LastN(c[key].messages, history_limit) ELSE <<>>

\* the oldest entries are kept
cache_messages_head(c, key, messages) ==
  [c EXCEPT ![key] =
     Cached(SubSeq(messages, 1, IF Len(messages) < history_limit
                                THEN Len(messages)
                                ELSE history_limit))]

\* the list is stored as it comes
cache_messages_whole(c, key, messages) ==
  [c EXCEPT ![key] = Cached(messages)]

\* the two new entries are added to the list the key holds
cache_messages_merge(c, key, messages) ==
  [c EXCEPT ![key] =
     Cached(LastN(c[key].messages
                    \o SubSeq(messages, Len(messages) - 1, Len(messages)),
                  history_limit))]

\* McpChatService._cache_messages: setex(key, 3600, messages[-history_limit:])
cache_messages(c, key, messages) ==
  [c EXCEPT ![key] = Cached(LastN(messages, history_limit))]

\* nothing was asked of the stores yet
NoReply ==
  [op |-> "none", key |-> "k1", limit |-> 0, messages |-> <<>>, ok |-> TRUE]

\* f"Error: {str(e)}"
ErrorContent(msg) == <<"Error: ">> \o msg

(***************************************************************************)
(* The context assemblers and the prompt.                                  *)
(***************************************************************************)
\* no call of the memory service yet
NoCalls == [retrieve |-> "none", append |-> "none"]

\* url is the server URL of the turn (none in the company mode)
NothingRetrieved ==
  [raised |-> FALSE, value |-> "list0", calls |-> {}, url |-> "none"]

\* what the vector retrieval meets: the switch, the embedding call, the query
RagInputs ==
  {[kind |-> "rag", enabled |-> en, embed |-> em, query |-> q, n |-> n] :
     en \in BOOLEAN, em \in {"ok", "fails", "empty"},
     q \in {"rows", "fails"}, n \in 0..1}

\* RAG is on, the embedding and the query succeed, n chunks are similar enough
PlainRag(n) ==
  [kind |-> "rag", enabled |-> TRUE, embed |-> "ok", query |-> "rows", n |-> n]

ListOf(n) == IF n = 0 THEN "list0" ELSE "list1"

\* the except clause lets the failure out
rag_failure_raised(calls) ==
  [raised |-> TRUE, value |-> "list0", calls |-> calls, url |-> "none"]

\* except Exception: return []
rag_failure(calls) ==
  [raised |-> FALSE, value |-> "list0", calls |-> calls, url |-> "none"]

\* CompanyChatService._retrieve_rag_context
retrieve_rag_context(in) ==
  IF ~in.enabled THEN NothingRetrieved
  ELSE IF in.embed = "fails" THEN rag_failure({"embed"})
  ELSE IF in.embed = "empty"
       THEN [raised |-> FALSE, value |-> "list0", calls |-> {"embed"},
             url |-> "none"]
  ELSE IF in.query = "fails" THEN rag_failure({"embed", "query"})
  ELSE [raised |-> FALSE, value |-> ListOf(in.n),
        calls |-> {"embed", "query"}, url |-> "none"]

\* server URLs the request schema accepts: any non-empty string
ServerUrls == {"http://host", "https://host/", "host:8080"}

\* startswith(('http://', 'https://'))
HasHttpScheme(url) == url \in {"http://host", "https://host/"}

\* JSON values a payload can carry where the snippets are expected
SnippetValues == {"list0", "list1", "text", "number", "null"}

\* what the memory service answers to the retrieval
MemoryAnswers ==
  {[outcome |-> "200_list", value |-> v] : v \in {"list0", "list1"}}
  \cup {[outcome |-> o, value |-> v] :
          o \in {"200_snippets", "200_memories"}, v \in SnippetValues}
  \cup {[outcome |-> o, value |-> "list0"] :
          o \in {"200_other", "200_not_json", "404", "500", "ConnectError",
                 "TimeoutException", "OtherError"}}

MemoryInputs ==
  {[kind |-> "memory", url |-> u, outcome |-> a.outcome, value |-> a.value] :
     u \in ServerUrls, a \in MemoryAnswers}

\* the server has an http URL and answers with a list of n snippets
PlainMemory(n) ==
  [kind |-> "memory", url |-> "http://host", outcome |-> "200_list",
   value |-> ListOf(n)]

\* McpMemoryClient.retrieve_memory
retrieve_memory(in) ==
  IF ~HasHttpScheme(in.url)
  THEN [raised |-> TRUE, value |-> "list0", calls |-> {}, url |-> in.url]
  ELSE IF in.outcome \in {"200_list", "200_snippets", "200_memories"}
       THEN [raised |-> FALSE, value |-> in.value, calls |-> {"retrieve"},
             url |-> in.url]
       ELSE [raised |-> FALSE, value |-> "list0", calls |-> {"retrieve"},
             url |-> in.url]

\* what the memory service answers to the push
AppendInputs ==
  {[url |-> u, outcome |-> o] :
     u \in ServerUrls,
     o \in {"200", "201", "404", "500", "ConnectError", "TimeoutException",
            "OtherError"}}

\* the server has an http URL and answers 200, or 500
PlainAppend(ok) ==
  [url |-> "http://host", outcome |-> IF ok THEN "200" ELSE "500"]

\* the except clauses let a network failure out
append_memory_raises(in) ==
  [raised |-> in.outcome \in {"ConnectError", "TimeoutException",
                              "OtherError"},
   success |-> HasHttpScheme(in.url) /\ in.outcome \in {"200", "201", "404"}]

\* McpMemoryClient.append_memory
append_memory(in) ==
  [raised |-> FALSE,
   success |-> HasHttpScheme(in.url) /\ in.outcome \in {"200", "201", "404"}]

\* `if rag_chunks:` / `if memory_snippets:`
Truthy(value) == value \in {"list1", "text", "number"}

\* enumerate(memory_snippets, 1) raises TypeError
NotIterable(value) == value = "number"

\* len(memory_snippets) raises TypeError
NoLen(value) == value \in {"number", "null"}

\* len(rag_chunks) / len(memory_snippets), as far as it has one
CountOf(value) == IF value \in {"list1", "text"} THEN 1 ELSE 0

SystemPrompt(company) ==
  IF company THEN <<"COMPANY_SYSTEM_PROMPT">>
  ELSE <<"MCP_SYSTEM_PROMPT", "server_name">>

ChatMessage(role, content) == [role |-> role, content |-> content]

RECURSIVE AsChatMessages(_)
AsChatMessages(hist) ==
  IF hist = <<>> THEN <<>>
  ELSE <<ChatMessage(Head(hist).role, Head(hist).content)>>
         \o AsChatMessages(Tail(hist))

\* the grounding message is put after the history
build_messages_grounding_late(company, hist, value, txt) ==
  <<ChatMessage("system", SystemPrompt(company))>>
    \o AsChatMessages(hist)
    \o (IF Truthy(value) THEN <<ChatMessage("system", <<"context">>)>>
        ELSE <<>>)
    \o <<ChatMessage("user", txt)>>

\* messages = [system prompt] + [context message] + history + [user message]
build_messages(company, hist, value, txt) ==
  <<ChatMessage("system", SystemPrompt(company))>>
    \o (IF Truthy(value) THEN <<ChatMessage("system", <<"context">>)>>
        ELSE <<>>)
    \o AsChatMessages(hist)
    \o <<ChatMessage("user", txt)>>

\* the entries of one turn; a row is created one tick of the clock after the
\* row before it
UserRow(s) ==
  [id |-> Len(db) + 1, created_at |-> Len(db) + 1,
   thread_id |-> conv[s], role |-> "user",
   content |-> text[s], model_used |-> "", token_count |-> 0, turn |-> turn[s]]
AssistantRow(s) ==
  [id |-> Len(db) + 1, created_at |-> Len(db) + 1,
   thread_id |-> conv[s], role |-> "assistant",
   content |-> assistant_content[s], model_used |-> ModelOf(conv[s]),
   token_count |-> token_count[s], turn |-> turn[s]]
UserEntry(s) ==
  [role |-> "user", content |-> text[s], model_used |-> "", token_count |-> 0,
   turn |-> turn[s]]
AssistantEntry(s) ==
  [role |-> "assistant", content |-> assistant_content[s],
   model_used |-> ModelOf(conv[s]), token_count |-> token_count[s],
   turn |-> turn[s]]

(***************************************************************************)
(* The model gateway: OllamaClient.                                        *)
(***************************************************************************)
MaxRetries == 2
MaxBody == 3
DefaultMaxRetries == 2
retry_delay == 1

MaxTexts == 2

Endpoints == {"generate", "chat", "embed"}
StreamEndpoints == {"generate", "chat"}

\* what generate, chat and embed are called with: the prompt, the roles of
\* the messages, the number of texts, the name of the embedding model
NoInput == [prompt |-> <<>>, messages |-> <<>>, texts |-> 0, model |-> <<>>]
Prompts == {<<"p">>, <<" ">>, <<>>}
MessageLists == {<<"system", "assistant", "user">>, <<>>, <<"tool">>,
                 <<"user", "tool">>}
ModelNames == {<<"m">>, <<" ">>, <<>>}
InputsOf(endpoint) ==
  IF endpoint = "generate"
  THEN {[NoInput EXCEPT !.prompt = p] : p \in Prompts}
  ELSE IF endpoint = "chat"
  THEN {[NoInput EXCEPT !.messages = m] : m \in MessageLists}
  ELSE {[NoInput EXCEPT !.texts = n, !.model = m] :
          n \in 0..MaxTexts, m \in ModelNames}

\* nothing is validated
InputAcceptedAny(endpoint, in) == TRUE

\* the checks at the head of generate, chat and embed
InputAccepted(endpoint, in) ==
  IF endpoint = "generate" THEN ~IsBlank(in.prompt)
  ELSE IF endpoint = "chat"
  THEN /\ in.messages # <<>>
       /\ \A i \in 1..Len(in.messages) :
            in.messages[i] \in {"user", "assistant", "system"}
  ELSE in.texts # 0 /\ ~IsBlank(in.model)

\* what a request can end in without a response
TransportExceptions == {"ConnectError", "TimeoutException", "OtherError"}

\* every exception is retried
RetryableAny(e) == TRUE

\* what the except clause of _make_request retries on
Retryable(e) == e \in {"ConnectError", "TimeoutException"}

\* response statuses and response texts the service can answer with
Statuses == {200, 400, 404, 401, 500, 503}
ResponseTexts == {"json_error_model", "json_error_other", "json_no_error",
                  "json_not_object", "text_model", "text_other", "empty",
                  "json_embeddings_1", "json_embeddings_2", "json_models"}

\* len(response['models']) of a response that has the key
ModelsIn(t) == IF t = "json_models" THEN 1 ELSE 0

\* len(response['embeddings']) of a response that has the key
EmbeddingsIn(t) ==
  IF t = "json_embeddings_1" THEN 1
  ELSE IF t = "json_embeddings_2" THEN 2 ELSE 0

\* json.loads(response_text) succeeds
IsJsonResponse(t) ==
  t \in {"json_error_model", "json_error_other", "json_no_error",
         "json_not_object", "json_embeddings_1", "json_embeddings_2",
         "json_models"}

\* 'model' in error_msg.lower()
MentionsModel(t) == t \in {"json_error_model", "text_model"}

NoResult == [kind |-> "none", value |-> "-"]
Returned(v) == [kind |-> "returned", value |-> v]
Raised(e) == [kind |-> "raised", value |-> e]
Exhausted == [kind |-> "exhausted", value |-> "-"]

\* the exception _handle_error_response builds; error_data.get fails on a
\* JSON value that is no object
handle_error_response(status, t) ==
  IF t = "json_not_object" THEN Raised("AttributeError")
  ELSE IF status = 404
       THEN IF MentionsModel(t) THEN Raised("ModelError")
                                ELSE Raised("ValidationError")
  ELSE IF status = 400 THEN Raised("ValidationError")
  ELSE IF 500 <= status /\ status < 600 THEN Raised("TransportError")
  ELSE Raised("TransportError")

handle_response(status, t) ==
  IF status = 200
  THEN IF IsJsonResponse(t) THEN Returned(t) ELSE Raised("ValidationError")
  ELSE handle_error_response(status, t)

\* _make_request's `except Exception`: whatever the try block raised
\* leaves as a TransportError
UnexpectedError(r) ==
  IF r.kind = "raised" THEN Raised("TransportError") ELSE r

\* every request is sent under the retry loop
InsideTryAlways(stream) == TRUE

\* the transport exception is raised inside _make_request's try block, hence
\* under its retry loop: so for a plain request; the streamed request is
\* sent by the generator, after _make_request has returned it
InsideTry(stream) == ~stream

\* the except clauses of _stream_request
stream_except(e) ==
  IF e = "TimeoutException" THEN Raised("StreamingError")
  ELSE IF e = "ConnectError" THEN Raised("TransportError")
  ELSE Raised(e)

\* every wait is the base delay
DelayConstant(a) == retry_delay

\* delay = self.retry_delay * (2 ** attempt)
Delay(a) == retry_delay * (2 ^ a)

Exception(e) == [kind |-> e, status |-> 0, text |-> "empty"]
Response(status, t) == [kind |-> "response", status |-> status, text |-> t]

(***************************************************************************)
(* The streamed body: text over a five-letter alphabet, in which a JSON    *)
(* object is an opening brace, blanks and at most one d, the done field,   *)
(* and a closing brace.  A body is put together from a few pieces: single  *)
(* letters and whole objects.                                              *)
(***************************************************************************)
Chars == {"{", "}", "d", " ", "\n"}
Pieces == {<<ch>> : ch \in Chars} \cup {<<"{", "}">>, <<"{", "d", "}">>}

RECURSIVE Join(_)
Join(pieces) ==
  IF pieces = <<>> THEN <<>> ELSE Head(pieces) \o Join(Tail(pieces))

Bodies == {Join(ps) : ps \in UNION {[1..n -> Pieces] : n \in 0..MaxBody}}

IsSpace(ch) == ch \in {" ", "\n"}

RECURSIVE LStrip(_)
LStrip(str) ==
  IF str # <<>> /\ IsSpace(Head(str)) THEN LStrip(Tail(str)) ELSE str

RECURSIVE RStrip(_)
RStrip(str) ==
  IF str # <<>> /\ IsSpace(str[Len(str)])
  THEN RStrip(SubSeq(str, 1, Len(str) - 1)) ELSE str

Strip(str) == RStrip(LStrip(str))

HasNewline(str) == \E i \in 1..Len(str) : str[i] = "\n"
FirstNewline(str) ==
  CHOOSE i \in 1..Len(str) :
    str[i] = "\n" /\ \A j \in 1..(i - 1) : str[j] # "\n"

\* json.loads: the object, or JSONDecodeError
json_loads(line) ==
  IF /\ Len(line) >= 2
     /\ line[1] = "{"
     /\ line[Len(line)] = "}"
     /\ \A i \in 2..(Len(line) - 1) : line[i] \in {" ", "d"}
     /\ Cardinality({i \in 2..(Len(line) - 1) : line[i] = "d"}) <= 1
  THEN [ok |-> TRUE,
        value |-> [done |-> \E i \in 2..(Len(line) - 1) : line[i] = "d"]]
  ELSE [ok |-> FALSE, value |-> [done |-> FALSE]]

\* the StreamChunk _stream_chat and _stream_generate make of a line's object:
\* done=chunk_data.get('done', False)
StreamChunk(data, n) ==
  [line |-> n, content |-> <<>>, done |-> data.done]

\* what one stripped line yields
ParseLine(line, n) ==
  IF line = <<>> THEN <<>>
  ELSE IF json_loads(line).ok
       THEN <<StreamChunk(json_loads(line).value, n)>>
       ELSE <<>>

\* while '\n' in buffer: split, strip, parse, yield
RECURSIVE ProcessLines(_, _, _)
ProcessLines(buf, out, n) ==
  IF ~HasNewline(buf)
  THEN [buffer |-> buf, yielded |-> out, lineno |-> n]
  ELSE LET i == FirstNewline(buf)
           line == Strip(SubSeq(buf, 1, i - 1))
           rest == SubSeq(buf, i + 1, Len(buf))
       IN ProcessLines(rest, out \o ParseLine(line, n + 1), n + 1)

\* what is left in the buffer is dropped
FinalBufferDropped(buf, n) == <<>>

\* if buffer.strip(): parse and yield what is left
FinalBuffer(buf, n) ==
  IF Strip(buf) # <<>> THEN ParseLine(Strip(buf), n + 1) ELSE <<>>

(***************************************************************************)
(* The initial state: empty stores, no request in flight.                  *)
(***************************************************************************)
StoresEmpty ==
  /\ db = <<>>
  /\ cache = [k \in CacheKeys |-> Absent]
  /\ threads = Threads

TasksIdle ==
  /\ pc = [s \in Slots |-> "idle"]
  /\ turn = [s \in Slots |-> 0]
  /\ conv = [s \in Slots |-> "t1"]
  /\ text = [s \in Slots |-> <<>>]
  /\ history = [s \in Slots |-> <<>>]
  /\ context = [s \in Slots |-> 0]
  /\ retrieved = [s \in Slots |-> NothingRetrieved]
  /\ chat_messages = [s \in Slots |-> <<>>]
  /\ chunks = [s \in Slots |-> <<>>]
  /\ assistant_content = [s \in Slots |-> <<>>]
  /\ token_count = [s \in Slots |-> 0]
  /\ deltas = [s \in Slots |-> <<>>]
  /\ error = [s \in Slots |-> NoError]
  /\ got = NoReply
  /\ redis = {}
  /\ memory_calls = [s \in Slots |-> NoCalls]
GatewayIdle ==
  /\ g_pc = "idle"
  /\ g_stream = FALSE
  /\ g_endpoint = "chat"
  /\ g_input = NoInput
  /\ attempt = 0
  /\ sent = 0
  /\ outcomes = <<>>
  /\ slept = <<>>
  /\ g_result = NoResult
  /\ body = <<>>
  /\ pos = 0
  /\ buffer = <<>>
  /\ lineno = 0
  /\ yielded = <<>>

OrchestratorIdle ==
  /\ StoresEmpty
  /\ TasksIdle

\* the process as it starts: get_ollama_client() builds the default client
Init ==
  /\ OrchestratorIdle
  /\ max_retries = DefaultMaxRetries
  /\ history_limit = McpHistoryLimit
  /\ GatewayIdle

\* the task is over: its generator's frame is gone
EndOfTask(s) ==
  /\ turn' = [turn EXCEPT ![s] = 0]
  /\ conv' = [conv EXCEPT ![s] = "t1"]
  /\ text' = [text EXCEPT ![s] = <<>>]
  /\ history' = [history EXCEPT ![s] = <<>>]
  /\ context' = [context EXCEPT ![s] = 0]
  /\ retrieved' = [retrieved EXCEPT ![s] = NothingRetrieved]
  /\ chat_messages' = [chat_messages EXCEPT ![s] = <<>>]
  /\ chunks' = [chunks EXCEPT ![s] = <<>>]
  /\ assistant_content' = [assistant_content EXCEPT ![s] = <<>>]
  /\ token_count' = [token_count EXCEPT ![s] = 0]
  /\ deltas' = [deltas EXCEPT ![s] = <<>>]
  /\ error' = [error EXCEPT ![s] = NoError]

(***************************************************************************)
(* A request arrives; the Validate step of both services.                  *)
(***************************************************************************)
Validate(s, c, x) ==
  /\ pc[s] = "idle"
  /\ s = "r2" => pc["r1"] # "idle"
  /\ IF IsBlank(x)
     THEN \* raise ValueError("Message text cannot be empty")
          /\ pc' = [pc EXCEPT ![s] = "rejected"]
          /\ UNCHANGED locals
     ELSE /\ turn' = [turn EXCEPT ![s] = TurnOf(s)]
          /\ conv' = [conv EXCEPT ![s] = c]
          /\ text' = [text EXCEPT ![s] = x]
          /\ pc' = [pc EXCEPT ![s] = "history"]
          /\ UNCHANGED <<history, context, retrieved, chat_messages, chunks,
                         assistant_content,
                         token_count, deltas, error>>
  /\ UNCHANGED stores
  /\ UNCHANGED <<gateway, history_limit, got, redis, memory_calls>>

\* history = await self.get_messages(thread_id, self.history_limit - 1)
\* cached_messages = await self._get_cached_messages(server_id, thread_id)
FetchHistory(s) ==
  /\ pc[s] = "history"
  /\ \E h \in (IF IsCompany(s)
               THEN get_messages(db, conv[s], CompanyHistoryLimit - 1)
               ELSE {get_cached_messages(cache, conv[s])}) :
       history' = [history EXCEPT ![s] = h]
  /\ pc' = [pc EXCEPT ![s] = "context"]
  /\ UNCHANGED <<stores, turn, conv, text, context, retrieved,
                 chat_messages, chunks,
                 assistant_content, token_count, deltas, error>>
  /\ UNCHANGED <<gateway, history_limit, got, redis, memory_calls>>

\* rag_chunks = await self._retrieve_rag_context(text)
\* memory_snippets = await self.mcp_memory_client.retrieve_memory(...)
FetchContext(s, in) ==
  /\ pc[s] = "context"
  /\ in.kind = IF IsCompany(s) THEN "rag" ELSE "memory"
  /\ LET r == IF IsCompany(s) THEN retrieve_rag_context(in)
                              ELSE retrieve_memory(in)
     IN /\ retrieved' = [retrieved EXCEPT ![s] = r]
        /\ IF r.raised \/ NotIterable(r.value)
           THEN \* the exception leaves the generator: no generation
                /\ pc' = [pc EXCEPT ![s] = "failed"]
                /\ UNCHANGED <<context, chat_messages>>
           ELSE /\ context' = [context EXCEPT ![s] = CountOf(r.value)]
                /\ chat_messages' = [chat_messages EXCEPT ![s] =
                     build_messages(IsCompany(s), history[s], r.value,
                                    text[s])]
                /\ pc' = [pc EXCEPT ![s] =
                     IF IsCompany(s) THEN "storeUser" ELSE "read"]
  /\ UNCHANGED <<stores, turn, conv, text, history, chunks,
                 assistant_content, token_count, deltas, error>>
  /\ memory_calls' =
       IF IsCompany(s) \/ ~HasHttpScheme(in.url) THEN memory_calls
       ELSE [memory_calls EXCEPT ![s].retrieve = in.outcome]
  /\ UNCHANGED <<gateway, history_limit, got, redis>>

\* send_company_message: session.add(user_msg); await session.commit()
StoreUserMessage(s) ==
  /\ pc[s] = "storeUser"
  /\ db' = Append(db, UserRow(s))
  /\ pc' = [pc EXCEPT ![s] = "read"]
  /\ UNCHANGED <<cache, threads, locals>>
  /\ UNCHANGED <<gateway, history_limit, got, redis, memory_calls>>

(***************************************************************************)
(* Generate: the loop over the gateway's chunk stream.                     *)
(***************************************************************************)
\* the i-th chunk of a stream carries no text or its own text
ChunkContents(i) == {<<>>, <<DeltaNames[i]>>}

\* if chunk.content:
Forwarded(chunk) == chunk.content # <<>>

\* assistant_content += chunk.content
Accumulate(acc, content) == acc \o content

BreakNever(chunk) == FALSE
\* if chunk.done: break
BreakAfter(chunk) == chunk.done

\* except Exception as e: assistant_content = error_content
ContentOnError(acc, msg) == ErrorContent(msg)

AfterErrorYieldReraise == "raised"
\* where the generator goes on after the error delta was taken by the caller
AfterErrorYield == "persist"

\* async for chunk in stream: one chunk arrives
ReadChunk(s, c, d) ==
  /\ pc[s] = "read"
  /\ Len(chunks[s]) < MaxChunks
  /\ LET chunk == [content |-> c, done |-> d] IN
     /\ chunks' = [chunks EXCEPT ![s] = Append(@, chunk)]
     /\ IF Forwarded(chunk)
        THEN /\ assistant_content' =
                  [assistant_content EXCEPT ![s] = Accumulate(@, c)]
             /\ token_count' = [token_count EXCEPT ![s] = @ + 1]
             /\ deltas' = [deltas EXCEPT ![s] = Append(@, c)]
             /\ pc' = [pc EXCEPT ![s] = "yielded"]
        ELSE /\ UNCHANGED <<assistant_content, token_count, deltas>>
             /\ pc' = [pc EXCEPT ![s] =
                        IF BreakAfter(chunk) THEN "persist" ELSE "read"]
  /\ UNCHANGED <<stores, turn, conv, text, history, context, retrieved,
                 chat_messages, error>>
  /\ UNCHANGED <<gateway, history_limit, got, redis, memory_calls>>

\* the caller asks for the next delta: the generator resumes after its yield
Resume(s) ==
  /\ pc[s] = "yielded"
  /\ pc' = [pc EXCEPT ![s] =
        IF BreakAfter(chunks[s][Len(chunks[s])]) THEN "persist" ELSE "read"]
  /\ UNCHANGED <<stores, locals>>
  /\ UNCHANGED <<gateway, history_limit, got, redis, memory_calls>>

\* the stream is exhausted (the transport closed)
StreamEnd(s) ==
  /\ pc[s] = "read"
  /\ pc' = [pc EXCEPT ![s] = "persist"]
  /\ UNCHANGED <<stores, locals>>
  /\ UNCHANGED <<gateway, history_limit, got, redis, memory_calls>>

\* the chat call or the stream raises: the except clause yields the error delta
StreamException(s, msg) ==
  /\ pc[s] = "read"
  /\ error' = [error EXCEPT ![s] = msg]
  /\ assistant_content' =
       [assistant_content EXCEPT ![s] = ContentOnError(@, msg)]
  /\ deltas' = [deltas EXCEPT ![s] = Append(@, ErrorContent(msg))]
  /\ pc' = [pc EXCEPT ![s] = "errYield"]
  /\ UNCHANGED <<stores, turn, conv, text, history, context, retrieved,
                 chat_messages, chunks,
                 token_count>>
  /\ UNCHANGED <<gateway, history_limit, got, redis, memory_calls>>

ResumeAfterError(s) ==
  /\ pc[s] = "errYield"
  /\ pc' = [pc EXCEPT ![s] = AfterErrorYield]
  /\ UNCHANGED <<stores, locals>>
  /\ UNCHANGED <<gateway, history_limit, got, redis, memory_calls>>

\* The caller goes away while the turn streams: the generator is closed at
\* its yield (GeneratorExit) or its task is cancelled at the read it awaits
\* (CancelledError).  Neither is an Exception, and there is no finally.
Disconnect(s) ==
  /\ pc[s] \in {"read", "yielded", "errYield"}
  /\ pc' = [pc EXCEPT ![s] = "closed"]
  /\ EndOfTask(s)
  /\ UNCHANGED stores
  /\ UNCHANGED <<gateway, history_limit, got, redis, memory_calls>>

(***************************************************************************)
(* Persist.                                                                *)
(***************************************************************************)
NewMessagesSwapped(hist, u, a) == hist \o <<a, u>>
\* new_messages = cached_messages + [user, assistant]
NewMessages(hist, u, a) == hist \o <<u, a>>

\* the assistant message is committed twice
StoreAssistantMessageTwice(s) ==
  /\ pc[s] = "persist"
  /\ IsCompany(s)
  /\ db' = Append(Append(db, AssistantRow(s)),
                  [AssistantRow(s) EXCEPT !.id = Len(db) + 2,
                                          !.created_at = Len(db) + 2])
  /\ pc' = [pc EXCEPT ![s] = "touch"]
  /\ UNCHANGED <<cache, threads, locals>>
  /\ UNCHANGED <<gateway, history_limit, got, redis, memory_calls>>

\* send_company_message: session.add(assistant_msg); await session.commit()
StoreAssistantMessage(s) ==
  /\ pc[s] = "persist"
  /\ IsCompany(s)
  /\ db' = Append(db, AssistantRow(s))
  /\ pc' = [pc EXCEPT ![s] = "touch"]
  /\ UNCHANGED <<cache, threads, locals>>
  /\ UNCHANGED <<gateway, history_limit, got, redis, memory_calls>>

\* a thread that is not there is created
UpdateThreadTimestampCreating(s) ==
  /\ pc[s] = "touch"
  /\ pc' = [pc EXCEPT ![s] = "done"]
  /\ EndOfTask(s)
  /\ threads' = threads \cup {conv[s]}
  /\ UNCHANGED <<db, cache>>
  /\ UNCHANGED <<gateway, history_limit, got, redis, memory_calls>>

\* send_company_message: thread = await session.get(CompanyChatThread, id);
\* if thread: thread.updated_at = utcnow(); commit.  The rows of the table are
\* the same threads after it.
UpdateThreadTimestamp(s) ==
  /\ pc[s] = "touch"
  /\ pc' = [pc EXCEPT ![s] = "done"]
  /\ EndOfTask(s)
  /\ threads' = threads
  /\ UNCHANGED <<db, cache>>
  /\ UNCHANGED <<gateway, history_limit, got, redis, memory_calls>>

\* the user entry is cached without the reply
CacheTurnWithoutReply(s) ==
  /\ pc[s] = "persist"
  /\ ~IsCompany(s)
  /\ cache' = cache_messages(cache, conv[s], Append(history[s], UserEntry(s)))
  /\ pc' = [pc EXCEPT ![s] = "memory"]
  /\ UNCHANGED <<db, threads, locals>>
  /\ UNCHANGED <<gateway, history_limit, got, redis, memory_calls>>

\* send_mcp_message: await self._cache_messages(server_id, thread_id, new_messages)
CacheTurn(s) ==
  /\ pc[s] = "persist"
  /\ ~IsCompany(s)
  /\ cache' = cache_messages(cache, conv[s],
                 NewMessages(history[s], UserEntry(s), AssistantEntry(s)))
  /\ pc' = [pc EXCEPT ![s] = "memory"]
  /\ UNCHANGED <<db, threads, locals>>
  /\ UNCHANGED <<gateway, history_limit, got, redis, memory_calls>>

\* send_mcp_message: success = await append_memory(...); a failure is logged.
\* The metadata of the call holds len(memory_snippets).
AppendMemory(s, in) ==
  /\ pc[s] = "memory"
  /\ in.url = retrieved[s].url
  /\ pc' = [pc EXCEPT ![s] =
       IF NoLen(retrieved[s].value) \/ append_memory(in).raised
       THEN "failed" ELSE "done"]
  /\ EndOfTask(s)
  /\ UNCHANGED stores
  /\ memory_calls' =
       IF NoLen(retrieved[s].value) \/ ~HasHttpScheme(in.url)
       THEN memory_calls
       ELSE [memory_calls EXCEPT ![s].append = in.outcome]
  /\ UNCHANGED <<gateway, history_limit, got, redis>>

Next ==
  \/ \E s \in Slots : \E c \in ConversationsOf(s) :
       \E x \in {Text(TurnOf(s)), Blank, Empty} : Validate(s, c, x)
  \/ \E s \in Slots : FetchHistory(s)
  \/ \E s \in Slots, n \in 0..1 :
       \E in \in {PlainRag(n), PlainMemory(n)} : FetchContext(s, in)
  \/ \E s \in Slots : StoreUserMessage(s)
  \/ \E s \in Slots, d \in BOOLEAN :
       \E c \in ChunkContents(Len(chunks[s]) + 1) : ReadChunk(s, c, d)
  \/ \E s \in Slots : Resume(s)
  \/ \E s \in Slots : StreamEnd(s)
  \/ \E s \in Slots, msg \in ErrorMessages : StreamException(s, msg)
  \/ \E s \in Slots : ResumeAfterError(s)
  \/ \E s \in Slots : Disconnect(s)
  \/ \E s \in Slots : StoreAssistantMessage(s)
  \/ \E s \in Slots : UpdateThreadTimestamp(s)
  \/ \E s \in Slots : CacheTurn(s)
  \/ \E s \in Slots, ok \in BOOLEAN : AppendMemory(s, PlainAppend(ok))

Spec == Init /\ [][Next]_vars

(***************************************************************************)
(* The cache under reads, clears and expiry, while turns go on.            *)
(***************************************************************************)

\* the read sets the expiry anew
GetMcpMessagesTouching(k, up) ==
  /\ got' = [op |-> "get", key |-> k, limit |-> history_limit, ok |-> up,
             messages |-> IF up THEN get_cached_messages(cache, k) ELSE <<>>]
  /\ cache' = IF up /\ cache[k].present
              THEN [cache EXCEPT ![k].ttl = TtlTicks]
              ELSE cache
  /\ UNCHANGED <<db, threads, pc, locals, gateway, history_limit, redis, memory_calls>>

\* get_mcp_messages: the cached list, or [] when Redis fails
GetMcpMessages(k, up) ==
  /\ got' = [op |-> "get", key |-> k, limit |-> history_limit, ok |-> up,
             messages |-> IF up THEN get_cached_messages(cache, k) ELSE <<>>]
  /\ UNCHANGED <<stores, pc, locals, gateway, history_limit, redis, memory_calls>>

\* clear_mcp_thread: delete the key; False when Redis fails
ClearMcpThread(k, up) ==
  /\ cache' = IF up THEN [cache EXCEPT ![k] = Absent] ELSE cache
  /\ got' = [op |-> "clear", key |-> k, limit |-> 0, ok |-> up,
             messages |-> <<>>]
  /\ UNCHANGED <<db, threads, pc, locals, gateway, history_limit, redis, memory_calls>>

\* the hour of setex is over
Expire(k) ==
  /\ cache[k].present
  /\ cache' = [cache EXCEPT ![k] = Absent]
  /\ UNCHANGED <<db, threads, pc, locals, got, gateway, history_limit, redis, memory_calls>>

\* turns of the per-server assistant, each of one delta, with reads, clears
\* and expiry in between
NextCache ==
  \/ \E s \in Slots : \E c \in ConversationsOf(s) \cap CacheKeys :
       Validate(s, c, Text(TurnOf(s)))
  \/ \E s \in Slots : FetchHistory(s)
  \/ \E s \in Slots : FetchContext(s, PlainMemory(0))
  \/ \E s \in Slots : ReadChunk(s, <<DeltaNames[1]>>, TRUE)
  \/ \E s \in Slots : Resume(s)
  \/ \E s \in Slots : Disconnect(s)
  \/ \E s \in Slots : CacheTurn(s)
  \/ \E s \in Slots : AppendMemory(s, PlainAppend(TRUE))
  \/ \E k \in CacheKeys, up \in BOOLEAN : GetMcpMessages(k, up)
  \/ \E k \in CacheKeys, up \in BOOLEAN : ClearMcpThread(k, up)
  \/ \E k \in CacheKeys : Expire(k)

SpecCache == Init /\ [][NextCache]_vars

(***************************************************************************)
(* Turns of one delta each, one after another, whatever the context        *)
(* assemblers and the memory service meet.                                 *)
(***************************************************************************)
NextContext ==
  \/ \E s \in Slots : \E c \in ConversationsOf(s) :
       /\ \A o \in Slots \ {s} : pc[o] \in {"idle", "done", "failed"}
       /\ Validate(s, c, Text(TurnOf(s)))
  \/ \E s \in Slots : FetchHistory(s)
  \/ \E s \in Slots : \E in \in RagInputs \cup MemoryInputs :
       FetchContext(s, in)
  \/ \E s \in Slots : StoreUserMessage(s)
  \/ \E s \in Slots : ReadChunk(s, <<DeltaNames[1]>>, TRUE)
  \/ \E s \in Slots : Resume(s)
  \/ \E s \in Slots : StoreAssistantMessage(s)
  \/ \E s \in Slots : UpdateThreadTimestamp(s)
  \/ \E s \in Slots : CacheTurn(s)
  \/ \E s \in Slots : \E in \in AppendInputs : AppendMemory(s, in)

SpecContext == Init /\ [][NextContext]_vars

(***************************************************************************)
(* Reads of the stores, whatever they hold.                                *)
(***************************************************************************)
MaxRows == 3

Times == 1..2

\* a row of the messages table
StoredRow(i, thread, time) ==
  [id |-> i, created_at |-> time, thread_id |-> thread, role |-> "user",
   content |-> <<>>, model_used |-> "", token_count |-> 0, turn |-> 0]

\* an entry of a cached list
StoredEntry(i) ==
  [role |-> "user", content |-> <<>>, model_used |-> "", token_count |-> 0,
   turn |-> i]

\* tables of up to MaxRows rows, in any threads, created at any times, and a
\* list under one cache key, which a service of a larger window may have
\* written
InitRead ==
  /\ \E n \in 0..MaxRows :
       \E th \in [1..n -> Threads], tm \in [1..n -> Times] :
         db = [i \in 1..n |-> StoredRow(i, th[i], tm[i])]
  /\ \E n \in 0..(McpHistoryLimit + 1), there \in BOOLEAN :
       /\ ~there => n = 0
       /\ cache = [k \in CacheKeys |->
                    IF k = "k1"
                    THEN (IF there
                          THEN Cached([i \in 1..n |-> StoredEntry(i)])
                          ELSE Absent)
                    ELSE Absent]
  /\ threads = Threads
  /\ TasksIdle
  /\ max_retries = DefaultMaxRetries
  /\ history_limit = McpHistoryLimit
  /\ GatewayIdle

\* get_messages(thread_id, limit)
GetMessages(thread, limit) ==
  /\ \E m \in get_messages(db, thread, limit) :
       got' = [op |-> "get_messages", key |-> thread, limit |-> limit,
               ok |-> TRUE, messages |-> m]
  /\ UNCHANGED <<stores, pc, locals, gateway, history_limit, redis, memory_calls>>

NextRead ==
  \/ \E thread \in Threads, limit \in 0..(MaxRows + 1) :
       GetMessages(thread, limit)
  \/ \E k \in CacheKeys, up \in BOOLEAN : GetMcpMessages(k, up)

SpecRead == InitRead /\ [][NextRead]_vars

(***************************************************************************)
(* The routes of the per-server assistant: identifiers and cache keys.     *)
(***************************************************************************)
\* path parameters: a letter, a hyphen, a colon
IdTexts == {<<"a">>, <<"a", "-">>, <<"-", "a">>, <<"-", "_">>,
            <<"a", ":">>, <<":", "a">>, <<>>, <<".", "/">>}

\* str.replace(ch, '')
RECURSIVE Remove(_, _)
Remove(str, ch) ==
  IF str = <<>> THEN <<>>
  ELSE IF Head(str) = ch THEN Remove(Tail(str), ch)
       ELSE <<Head(str)>> \o Remove(Tail(str), ch)

\* str.isalnum()
IsAlnum(str) == str # <<>> /\ \A i \in 1..Len(str) : str[i] = "a"

\* every identifier passes
IsValidIdAny(id) == TRUE

\* every identifier that is not empty passes
IsValidIdNonEmpty(id) == id # <<>>

\* id.replace('-', '').replace('_', '').isalnum()
IsValidId(id) == IsAlnum(Remove(Remove(id, "-"), "_"))

\* f"mcpchat:{server_id}:{thread_id}"
get_redis_key(server_id, thread_id) ==
  <<"mcpchat", ":">> \o server_id \o <<":">> \o thread_id

\* what is stored under a key, as a list
ListAt(key) ==
  IF \E r \in redis : r.key = key
  THEN <<CHOOSE r \in redis : r.key = key>>
  ELSE <<>>

\* the route turns the request down: 400
RouteRejects(server_id, thread_id) ==
  /\ ~(IsValidId(server_id) /\ IsValidId(thread_id))
  /\ got' = [op |-> "rejected", key |-> "k1", limit |-> 0, ok |-> FALSE,
             messages |-> <<>>]
  /\ UNCHANGED <<stores, pc, locals, gateway, history_limit, redis, memory_calls>>

\* a turn of the pair writes the pair's list under its key; Redis holds the
\* lists of two pairs at most
RouteSend(server_id, thread_id) ==
  /\ IsValidId(server_id) /\ IsValidId(thread_id)
  /\ LET key == get_redis_key(server_id, thread_id) IN
     /\ Cardinality({r \in redis : r.key # key}) < 2
     /\ redis' = {r \in redis : r.key # key} \cup
                   {[key |-> key, server_id |-> server_id,
                     thread_id |-> thread_id]}
  /\ UNCHANGED <<stores, pc, locals, gateway, history_limit, got, memory_calls>>

\* the pair's list is read
RouteGet(server_id, thread_id) ==
  /\ IsValidId(server_id) /\ IsValidId(thread_id)
  /\ got' = [op |-> "read", key |-> get_redis_key(server_id, thread_id),
             server_id |-> server_id, thread_id |-> thread_id, limit |-> 0,
             ok |-> TRUE,
             messages |-> ListAt(get_redis_key(server_id, thread_id))]
  /\ UNCHANGED <<stores, pc, locals, gateway, history_limit, redis, memory_calls>>

\* the pair's list is deleted
RouteClear(server_id, thread_id) ==
  /\ IsValidId(server_id) /\ IsValidId(thread_id)
  /\ redis' = {r \in redis : r.key # get_redis_key(server_id, thread_id)}
  /\ got' = [op |-> "clear", key |-> get_redis_key(server_id, thread_id),
             server_id |-> server_id, thread_id |-> thread_id, limit |-> 0,
             ok |-> TRUE, messages |-> <<>>]
  /\ UNCHANGED <<stores, pc, locals, gateway, history_limit, memory_calls>>

\* a table of rows created one after the other, in any threads; no key in
\* Redis
InitKeys ==
  /\ \E n \in 0..MaxRows :
       \E th \in [1..n -> Threads] :
         db = [i \in 1..n |-> StoredRow(i, th[i], i)]
  /\ cache = [k \in CacheKeys |-> Absent]
  /\ threads = Threads
  /\ TasksIdle
  /\ max_retries = DefaultMaxRetries
  /\ history_limit = McpHistoryLimit
  /\ GatewayIdle

NextKeys ==
  \/ \E thread \in Threads : GetMessages(thread, CompanyHistoryLimit)
  \/ \E sid \in IdTexts, tid \in IdTexts : RouteRejects(sid, tid)
  \/ \E sid \in IdTexts, tid \in IdTexts : RouteSend(sid, tid)
  \/ \E sid \in IdTexts, tid \in IdTexts : RouteGet(sid, tid)
  \/ \E sid \in IdTexts, tid \in IdTexts : RouteClear(sid, tid)

SpecKeys == InitKeys /\ [][NextKeys]_vars

(***************************************************************************)
(* A call of the gateway.                                                  *)
(***************************************************************************)
\* a client of any retry budget, nothing requested yet
InitGateway ==
  /\ OrchestratorIdle
  /\ max_retries \in 0..MaxRetries
  /\ history_limit = McpHistoryLimit
  /\ GatewayIdle

stream_state == <<body, pos, buffer, lineno, yielded>>

\* generate, chat or embed is called; a streamed call gets its generator
\* from the first pass of _make_request's loop
Call(endpoint, stream, in) ==
  /\ g_pc = "idle"
  /\ stream => endpoint \in StreamEndpoints
  /\ in \in InputsOf(endpoint)
  /\ g_endpoint' = endpoint
  /\ g_input' = in
  /\ g_stream' = stream
  /\ attempt' = 0
  /\ IF InputAccepted(endpoint, in)
     THEN /\ g_pc' = IF stream THEN "open" ELSE "send"
          /\ UNCHANGED g_result
     ELSE /\ g_pc' = "done"
          /\ g_result' = Raised("ValidationError")
  /\ UNCHANGED <<max_retries, sent, outcomes, slept, stream_state>>
  /\ UNCHANGED orchestrator

\* client.request answers: _handle_response, under `except Exception`
Respond(status, t) ==
  /\ g_pc = "send"
  /\ sent' = sent + 1
  /\ outcomes' = Append(outcomes, Response(status, t))
  /\ g_result' = UnexpectedError(handle_response(status, t))
  /\ g_pc' = "done"
  /\ UNCHANGED <<max_retries, g_stream, g_endpoint, g_input, attempt, slept,
                 stream_state>>
  /\ UNCHANGED orchestrator

\* the transport raises: while sending a plain request, while opening the
\* stream, or while reading it
TransportFails(e) ==
  /\ g_pc \in {"send", "open", "streaming"}
  /\ sent' = IF g_pc = "streaming" THEN sent ELSE sent + 1
  /\ outcomes' = Append(outcomes, Exception(e))
  /\ IF InsideTry(g_stream)
     THEN IF Retryable(e)
          THEN IF attempt < max_retries
               THEN g_pc' = "sleep" /\ UNCHANGED g_result
               ELSE g_pc' = "done" /\ g_result' = Raised("TransportError")
          ELSE g_pc' = "done" /\ g_result' = UnexpectedError(Raised(e))
     ELSE g_pc' = "done" /\ g_result' = stream_except(e)
  /\ UNCHANGED <<max_retries, g_stream, g_endpoint, g_input, attempt, slept,
                 stream_state>>
  /\ UNCHANGED orchestrator

\* await asyncio.sleep(delay); continue
Backoff ==
  /\ g_pc = "sleep"
  /\ slept' = Append(slept, Delay(attempt))
  /\ attempt' = attempt + 1
  /\ g_pc' = IF g_stream THEN "open" ELSE "send"
  /\ UNCHANGED <<max_retries, g_stream, g_endpoint, g_input, sent, outcomes, g_result,
                 stream_state>>
  /\ UNCHANGED orchestrator

\* client.stream answers 200 and some body is on its way
OpenStream ==
  /\ g_pc = "open"
  /\ sent' = sent + 1
  /\ outcomes' = Append(outcomes, Response(200, "empty"))
  /\ body' \in Bodies
  /\ pos' = 0
  /\ buffer' = <<>>
  /\ lineno' = 0
  /\ g_pc' = "streaming"
  /\ UNCHANGED <<max_retries, g_stream, g_endpoint, g_input, attempt, slept, g_result,
                 yielded>>
  /\ UNCHANGED orchestrator

\* client.stream answers another status: the mapped error is raised
StreamErrorResponse(status, t) ==
  /\ g_pc = "open"
  /\ status # 200
  /\ sent' = sent + 1
  /\ outcomes' = Append(outcomes, Response(status, t))
  /\ g_result' = handle_error_response(status, t)
  /\ g_pc' = "done"
  /\ UNCHANGED <<max_retries, g_stream, g_endpoint, g_input, attempt, slept,
                 stream_state>>
  /\ UNCHANGED orchestrator

\* aiter_text delivers the next k characters of the body
ReceiveText(k) ==
  /\ g_pc = "streaming"
  /\ k \in 1..(Len(body) - pos)
  /\ LET r == ProcessLines(buffer \o SubSeq(body, pos + 1, pos + k),
                           yielded, lineno)
     IN /\ buffer' = r.buffer
        /\ yielded' = r.yielded
        /\ lineno' = r.lineno
  /\ pos' = pos + k
  /\ UNCHANGED <<max_retries, g_pc, g_stream, g_endpoint, g_input, attempt, sent,
                 outcomes, slept, g_result, body>>
  /\ UNCHANGED orchestrator

\* the body is through: the rest of the buffer, then the generator returns
StreamEnds ==
  /\ g_pc = "streaming"
  /\ pos = Len(body)
  /\ yielded' = yielded \o FinalBuffer(buffer, lineno)
  /\ g_result' = Exhausted
  /\ g_pc' = "done"
  /\ UNCHANGED <<max_retries, g_stream, g_endpoint, g_input, attempt, sent, outcomes,
                 slept, body, pos, buffer, lineno>>
  /\ UNCHANGED orchestrator

NextGateway ==
  \/ \E endpoint \in Endpoints, stream \in BOOLEAN :
       \E in \in InputsOf(endpoint) : Call(endpoint, stream, in)
  \/ \E status \in Statuses, t \in ResponseTexts : Respond(status, t)
  \/ \E e \in TransportExceptions : TransportFails(e)
  \/ Backoff
  \/ OpenStream
  \/ \E status \in Statuses, t \in ResponseTexts : StreamErrorResponse(status, t)
  \/ \E k \in 1..MaxBody : ReceiveText(k)
  \/ StreamEnds

SpecGateway == InitGateway /\ [][NextGateway]_vars

(***************************************************************************)
(* Properties of a turn.                                                   *)
(***************************************************************************)
RECURSIVE Flatten(_)
Flatten(texts) ==
  IF texts = <<>> THEN <<>> ELSE Head(texts) \o Flatten(Tail(texts))

RECURSIVE NonEmptyContents(_)
NonEmptyContents(chs) ==
  IF chs = <<>> THEN <<>>
  ELSE (IF Head(chs).content = <<>> THEN <<>> ELSE <<Head(chs).content>>)
       \o NonEmptyContents(Tail(chs))

RECURSIVE OfTurn(_, _)
OfTurn(entries, t) ==
  IF entries = <<>> THEN <<>>
  ELSE (IF Head(entries).turn = t THEN <<Head(entries)>> ELSE <<>>)
       \o OfTurn(Tail(entries), t)

Failed(s) == error[s] # NoError
IsErrorDelta(d) == Len(d) >= 1 /\ d[1] = "Error: "

\* the step in which task s writes its assistant message
PersistStep(s) == pc[s] = "persist" /\ pc'[s] # "persist"

\* what that step left in the turn's conversation, oldest first
WrittenConversation(s) ==
  IF IsCompany(s) THEN Filter(db', conv[s], 1) ELSE cache'[conv[s]].messages

\* the conversation ends with the turn's assistant message, and the turn's
\* user message stands before it
AssistantAfterUser(m, s) ==
  /\ Len(m) >= 2
  /\ m[Len(m)].role = "assistant"
  /\ m[Len(m)].turn = turn[s]
  /\ \E i \in 1..(Len(m) - 1) :
        /\ m[i].role = "user"
        /\ m[i].turn = turn[s]
        /\ m[i].content = text[s]

FailedTurnState ==
  \A s \in Slots : Failed(s) =>
    /\ pc[s] \in {"errYield", "persist", "touch", "memory"}
    /\ deltas[s] # <<>>
    /\ deltas[s][Len(deltas[s])] = ErrorContent(error[s])
    /\ \A i \in 1..(Len(deltas[s]) - 1) : ~IsErrorDelta(deltas[s][i])

FailedTurnStep ==
  \A s \in Slots : Failed(s) =>
    /\ pc[s] = "errYield" => pc'[s] \in {"errYield", "persist", "closed"}
    /\ PersistStep(s) =>
          /\ pc'[s] \in {"touch", "memory"}
          /\ ~IsCompany(s) => cache'[conv[s]].present
          /\ AssistantAfterUser(WrittenConversation(s), s)

\* C1: when the stream raises, the caller gets exactly one "Error: <message>"
\* delta and it is the last one, no exception reaches the caller, and the
\* persist step still writes an assistant message after the user message.
C1_FailedTurnIsRecorded == []FailedTurnState /\ [][FailedTurnStep]_vars

C1_Witness ==
  \E s \in Slots :
    /\ Failed(s)
    /\ pc[s] \in {"touch", "memory"}
    /\ Len(deltas[s]) >= 2

\* the assistant messages of task s's turn that its conversation holds
StoredAssistant(s) ==
  LET m == IF IsCompany(s) THEN db ELSE cache[conv[s]].messages
      mine == OfTurn(m, turn[s])
  IN  {mine[i].content : i \in {j \in 1..Len(mine) : mine[j].role = "assistant"}}

\* C2: after a failed generation the persisted assistant content is the
\* concatenation of every delta the caller received (the forwarded deltas
\* followed by the error text).
C2_PersistedIsEveryDelta ==
  \A s \in Slots :
    Failed(s) /\ pc[s] \in {"touch", "memory"} =>
      \A content \in StoredAssistant(s) : content = Flatten(deltas[s])

DisconnectPersistsStep ==
  \A s \in Slots :
    pc[s] # "closed" /\ pc'[s] = "closed" /\ deltas[s] # <<>> =>
      LET m == OfTurn(IF IsCompany(s) THEN db' ELSE cache'[conv[s]].messages,
                      turn[s])
      IN  /\ \E i \in 1..Len(m) :
                m[i].role = "user" /\ m[i].content = text[s]
          /\ \E i \in 1..Len(m) :
                m[i].role = "assistant"
                /\ m[i].content = assistant_content[s]

\* C3: when the caller disconnects after some deltas were forwarded, the
\* store still ends up with the turn's user message and an assistant message
\* holding what was accumulated.  A closed task takes no further step, so
\* what the store holds when the task closes is what it ends up holding.
C3_DisconnectStillPersists == [][DisconnectPersistsStep]_vars

CompletedCompanyTurn ==
  \A s \in Slots : pc[s] = "touch" =>
    LET mine == OfTurn(db, turn[s]) IN
    /\ Len(mine) = 2
    /\ mine[1] = [UserRow(s) EXCEPT !.id = mine[1].id,
                                    !.created_at = mine[1].created_at]
    /\ mine[2] = [AssistantRow(s) EXCEPT !.id = mine[2].id,
                                         !.created_at = mine[2].created_at]
    /\ mine[1].id < mine[2].id

CacheWriteStep ==
  \A s \in Slots : PersistStep(s) /\ ~IsCompany(s) =>
    /\ cache'[conv[s]].present
    /\ cache'[conv[s]].messages =
         LastN(history[s] \o <<UserEntry(s), AssistantEntry(s)>>,
               McpHistoryLimit)
    /\ db' = db

OwnConversationOnly ==
  /\ \A k \in CacheKeys : cache'[k] # cache[k] =>
        \E s \in Slots : conv[s] = k /\ PersistStep(s)
  /\ db' # db =>
        \E s \in Slots :
          /\ IsCompany(s)
          /\ pc[s] \in {"storeUser", "persist"} /\ pc'[s] # pc[s]
          /\ Len(db') = Len(db) + 1
          /\ SubSeq(db', 1, Len(db)) = db
          /\ db'[Len(db')].thread_id = conv[s]
          /\ db'[Len(db')].turn = turn[s]
          /\ cache' = cache

\* C4: a turn that runs to completion adds exactly two entries to its own
\* conversation, the user message and then the assistant message with the
\* accumulated text and the model, and no step of it changes another
\* conversation; the cache receives them appended to the history that was
\* read, before truncation.
C4_TurnAddsUserThenAssistant ==
  []CompletedCompanyTurn /\ [][CacheWriteStep /\ OwnConversationOnly]_vars

C4_Witness ==
  \E s \in Slots :
    /\ pc[s] = "memory"
    /\ ~Failed(s)
    /\ history[s] # <<>>
    /\ Len(deltas[s]) = 2
    /\ cache[conv[s]].messages = <<UserEntry(s), AssistantEntry(s)>>

ForwardingState ==
  \A s \in Slots :
    ~Failed(s) /\ pc[s] \in {"read", "yielded", "persist", "touch", "memory"} =>
      /\ deltas[s] = NonEmptyContents(chunks[s])
      /\ assistant_content[s] = Flatten(deltas[s])
      /\ \A i \in 1..(Len(chunks[s]) - 1) : ~chunks[s][i].done
      /\ pc[s] = "read" => \A i \in 1..Len(chunks[s]) : ~chunks[s][i].done

RecordedContentStep ==
  \A s \in Slots : ~Failed(s) /\ PersistStep(s) =>
    LET m == WrittenConversation(s) IN
    /\ m # <<>>
    /\ m[Len(m)].role = "assistant"
    /\ m[Len(m)].turn = turn[s]
    /\ m[Len(m)].content = Flatten(deltas[s])

\* C5: while generation does not fail the caller has received exactly the
\* non-empty deltas of the chunks read, in order, each before the next chunk
\* is read; no chunk is read after the first done chunk; the recorded
\* assistant content is the concatenation of the forwarded deltas.
C5_ForwardsNonEmptyUntilDone ==
  []ForwardingState /\ [][RecordedContentStep]_vars

C5_Witness ==
  \E s \in Slots :
    /\ ~Failed(s)
    /\ pc[s] \in {"touch", "memory"}
    /\ Len(chunks[s]) = 2
    /\ chunks[s][1].content = <<>>
    /\ chunks[s][2].content # <<>>
    /\ chunks[s][2].done

(***************************************************************************)
(* Properties of a gateway call.                                           *)
(***************************************************************************)
LastOutcome == outcomes[Len(outcomes)]

ConnectionOrTimeout(o) == o.kind \in {"ConnectError", "TimeoutException"}

Successful(o) ==
  o.kind = "response" /\ o.status = 200 /\ IsJsonResponse(o.text)

\* a streamed call whose input was accepted
StreamedRequest == g_stream /\ InputAccepted(g_endpoint, g_input)

\* a call whose input was accepted and that is not streamed
PlainRequest ==
  ~g_stream /\ g_pc # "idle" /\ InputAccepted(g_endpoint, g_input)

\* C6: a plain request is sent at most max_retries + 1 times, 3 times by
\* default; every attempt before the last failed by connection or timeout;
\* an attempt that ends otherwise ends the request, with the response of that
\* attempt if it succeeded and with an error if it did not; when all
\* max_retries + 1 attempts fail by connection or timeout the request fails
\* with TransportError; and the request ends in no other way.
C6_RetriesOnlyConnectionOrTimeout ==
  PlainRequest =>
    /\ sent = Len(outcomes)
    /\ sent <= max_retries + 1
    /\ max_retries = DefaultMaxRetries => sent <= 3
    /\ \A i \in 1..(Len(outcomes) - 1) : ConnectionOrTimeout(outcomes[i])
    /\ (outcomes # <<>> /\ ~ConnectionOrTimeout(LastOutcome)) =>
         /\ g_pc = "done"
         /\ IF Successful(LastOutcome)
            THEN g_result = Returned(LastOutcome.text)
            ELSE g_result.kind = "raised"
    /\ (sent = max_retries + 1 /\ ConnectionOrTimeout(LastOutcome)) =>
         /\ g_pc = "done"
         /\ g_result = Raised("TransportError")
    /\ g_pc = "done" =>
         /\ outcomes # <<>>
         /\ ConnectionOrTimeout(LastOutcome) => sent = max_retries + 1

\* the default client gave up after three connection or timeout failures
C6_Witness ==
  /\ PlainRequest
  /\ g_pc = "done"
  /\ max_retries = DefaultMaxRetries
  /\ sent = 3
  /\ \A i \in 1..3 : ConnectionOrTimeout(outcomes[i])
  /\ slept = <<1, 2>>
  /\ g_result = Raised("TransportError")

\* C7: a streamed call hands its request to the transport at most once,
\* whatever fails and whenever, and yields no line of the body twice.
C7_StreamSentAtMostOnce ==
  g_stream =>
    /\ sent <= 1
    /\ \A i, j \in 1..Len(yielded) :
         i # j => yielded[i].line # yielded[j].line

\* a stream that had yielded a line failed by timeout, on a client with
\* retries to spare, and the call is over
C7_Witness ==
  /\ g_stream
  /\ g_pc = "done"
  /\ max_retries >= 1
  /\ sent = 1
  /\ yielded # <<>>
  /\ LastOutcome.kind = "TimeoutException"
  /\ g_result.kind = "raised"

MidStreamFailure ==
  /\ g_stream
  /\ g_pc = "done"
  /\ yielded # <<>>
  /\ LastOutcome.kind \in TransportExceptions

\* C8: every transport failure while the stream is read, after a chunk was
\* yielded, reaches the consumer as StreamingError.
C8_MidStreamFailureIsStreamingError ==
  MidStreamFailure => g_result = Raised("StreamingError")

\* the error kind the table gives for an HTTP outcome
TableKind(o) ==
  IF o.status = 404 /\ MentionsModel(o.text) THEN "ModelError"
  ELSE IF o.status \in {404, 400} THEN "ValidationError"
  ELSE IF 500 <= o.status /\ o.status < 600 THEN "TransportError"
  ELSE "ValidationError"

InTable(o) ==
  /\ o.kind = "response"
  /\ o.text # "json_not_object"
  /\ \/ o.status \in {404, 400}
     \/ 500 <= o.status /\ o.status < 600
     \/ o.status = 200 /\ ~IsJsonResponse(o.text)

\* C9: a plain generate, chat or embed call that ends on an HTTP outcome of
\* the table raises the error kind the table gives for it.
C9_ErrorKindFollowsTable ==
  (PlainRequest /\ g_pc = "done" /\ InTable(LastOutcome)) =>
    g_result = Raised(TableKind(LastOutcome))

\* the lines of a text, split at every newline
RECURSIVE SplitLines(_)
SplitLines(str) ==
  IF ~HasNewline(str) THEN <<str>>
  ELSE <<SubSeq(str, 1, FirstNewline(str) - 1)>>
         \o SplitLines(SubSeq(str, FirstNewline(str) + 1, Len(str)))

WellFormed(line) == Strip(line) # <<>> /\ json_loads(Strip(line)).ok

\* the numbers of the well-formed lines among the first n lines, ascending
RECURSIVE WellFormedAmong(_, _)
WellFormedAmong(lines, n) ==
  IF n = 0 THEN <<>>
  ELSE WellFormedAmong(lines, n - 1)
         \o (IF WellFormed(lines[n]) THEN <<n>> ELSE <<>>)

LinesYielded == [i \in 1..Len(yielded) |-> yielded[i].line]

Delivered == SubSeq(body, 1, pos)

C11_NoChunkAfterDone ==
  g_stream =>
    \A i, j \in 1..Len(yielded) : i < j => ~yielded[i].done

(***************************************************************************)
(* Properties of the conversation stores.                                  *)
(***************************************************************************)
\* C12: whatever turns, reads, clears and expiries have happened and however
\* they interleaved, the list stored under every cache key has at most
\* McpHistoryLimit entries.
C12_CacheListWithinWindow ==
  \A k \in CacheKeys : Len(cache[k].messages) <= McpHistoryLimit

\* a turn that had fetched a history has just written: history and the two
\* new entries were more than the window, and the stored list is the window
C12_Witness ==
  \E s \in Slots :
    /\ pc[s] = "memory"
    /\ Len(history[s]) + 2 > McpHistoryLimit
    /\ Len(cache[conv[s]].messages) = McpHistoryLimit

\* the second turn of a key has written after the first had: what it fetched
\* is what the first appended, and its own entries are in the cache
SecondTurnWritten(s) ==
  /\ pc[s] = "memory"
  /\ turn[s] = 2
  /\ Len(history[s]) = 2
  /\ history[s][1].turn = 1 /\ history[s][1].role = "user"
  /\ history[s][2].turn = 1 /\ history[s][2].role = "assistant"
  /\ cache[conv[s]].present

\* everything the two turns appended, oldest first
Appended(s) == history[s] \o <<UserEntry(s), AssistantEntry(s)>>

GetAfterTurnsStep ==
  \A s \in Slots :
    (/\ SecondTurnWritten(s)
     /\ got' # got
     /\ got'.op = "get" /\ got'.key = conv[s] /\ got'.ok) =>
      /\ Len(Appended(s)) > McpHistoryLimit
      /\ got'.messages = SubSeq(Appended(s),
                                Len(Appended(s)) - McpHistoryLimit + 1,
                                Len(Appended(s)))

\* C13: after two turns on one key, one after the other, that appended more
\* entries than the window, with no expiry, clear or cache failure,
\* get_mcp_messages returns exactly the last McpHistoryLimit entries
\* appended, oldest first.
C13_ReadReturnsLastWindow == [][GetAfterTurnsStep]_vars

\* such a read has answered: a full window that ends in the second turn's
\* assistant entry
C13_Witness ==
  \E s \in Slots :
    /\ SecondTurnWritten(s)
    /\ got.op = "get" /\ got.key = conv[s] /\ got.ok
    /\ Len(got.messages) = McpHistoryLimit
    /\ got.messages[McpHistoryLimit] = AssistantEntry(s)

Min(a, b) == IF a < b THEN a ELSE b

\* what get_messages answered: that many rows of the thread, each once, no
\* row before an older one, and no row left out that is younger than a row
\* returned
RecentOfThread ==
  got.op = "get_messages" =>
    LET mine == Filter(db, got.key, 1)
        m == got.messages
    IN /\ Len(m) = Min(got.limit, Len(mine))
       /\ \A i \in 1..Len(m) : \E j \in 1..Len(mine) : mine[j] = m[i]
       /\ \A i, j \in 1..Len(m) : i # j => m[i].id # m[j].id
       /\ \A i, j \in 1..Len(m) :
            i < j => m[i].created_at <= m[j].created_at
       /\ \A j \in 1..Len(mine) :
            (\A i \in 1..Len(m) : m[i] # mine[j]) =>
              \A i \in 1..Len(m) : mine[j].created_at <= m[i].created_at

\* what the cache read answered: the tail of the stored list, in its order,
\* of at most the window; nothing when the key is absent or Redis failed
RecentOfKey ==
  got.op = "get" =>
    LET stored == cache[got.key].messages
        m == got.messages
    IN /\ Len(m) <= McpHistoryLimit
       /\ IF got.ok /\ cache[got.key].present
          THEN /\ Len(m) = Min(McpHistoryLimit, Len(stored))
               /\ m = SubSeq(stored, Len(stored) - Len(m) + 1, Len(stored))
          ELSE m = <<>>

\* C14: get_messages(thread, limit) returns the min(limit, n) most recent of
\* the thread's n messages, oldest first by creation time, and the cache
\* read returns at most McpHistoryLimit entries in the order they were
\* appended.
C14_RecentAtMostLimitOldestFirst == RecentOfThread /\ RecentOfKey

\* two of a thread's three rows were returned, the younger last, though the
\* table holds it first
C14_Witness ==
  /\ got.op = "get_messages"
  /\ got.limit = 2
  /\ Len(Filter(db, got.key, 1)) = 3
  /\ Len(got.messages) = 2
  /\ got.messages[1].created_at < got.messages[2].created_at
  /\ got.messages[1].id > got.messages[2].id

ValidPairs ==
  {p \in IdTexts \X IdTexts : IsAlnum(Remove(Remove(p[1], "-"), "_"))
                              /\ IsAlnum(Remove(Remove(p[2], "-"), "_"))}

\* what a read for the pair finds
ReadFor(keys, p) ==
  {r \in keys : r.key = get_redis_key(p[1], p[2])}

\* a read answers with messages of the conversation asked for only, and no
\* key holds the list of one accepted pair under the key of another
OwnMessagesOnly ==
  /\ got.op = "get_messages" =>
       \A i \in 1..Len(got.messages) : got.messages[i].thread_id = got.key
  /\ got.op = "read" =>
       \A i \in 1..Len(got.messages) :
         /\ got.messages[i].server_id = got.server_id
         /\ got.messages[i].thread_id = got.thread_id
  /\ \A r \in redis : \A p \in ValidPairs :
       get_redis_key(p[1], p[2]) = r.key =>
         p = <<r.server_id, r.thread_id>>

\* a write for one pair leaves what every other accepted pair reads as it was
OtherPairsUntouchedStep ==
  redis' # redis =>
    \E w \in ValidPairs :
      /\ ReadFor(redis', w) # ReadFor(redis, w)
      /\ \A p \in ValidPairs \ {w} : ReadFor(redis', p) = ReadFor(redis, p)

\* C15: get_messages(T) returns only messages whose thread is T; two
\* different (server_id, thread_id) pairs that pass the route validation
\* never have the same cache key, a read for a pair returns only what was
\* written for that pair, and a turn on one pair never changes what is read
\* for another.
C15_ConversationsNeverMix ==
  []OwnMessagesOnly /\ [][OtherPairsUntouchedStep]_vars

\* two pairs that differ only in where the hyphen stands have each written,
\* and a read for one of them answered with its own list
C15_Witness ==
  /\ got.op = "read"
  /\ got.messages # <<>>
  /\ got.server_id = <<"a", "-">>
  /\ got.thread_id = <<"a">>
  /\ \E r \in redis : r.server_id = <<"a">> /\ r.thread_id = <<"-", "a">>

(***************************************************************************)
(* Properties of the prompt.                                               *)
(***************************************************************************)
WindowOf(s) == IF IsCompany(s) THEN CompanyHistoryLimit ELSE McpHistoryLimit

\* C16: in both modes the history a turn has fetched holds at most
\* (history window - 1) messages, so that history and the new user message
\* together stay within the window.
C16_HistoryLeavesRoomForTurn ==
  \A s \in Slots :
    pc[s] \notin {"idle", "rejected", "history", "done", "closed"} =>
      Len(history[s]) <= WindowOf(s) - 1

(***************************************************************************)
(* The message list sent to the model.                                     *)
(***************************************************************************)
\* the task has composed its prompt and has not ended
Composed(s) ==
  pc[s] \in {"storeUser", "read", "yielded", "errYield", "persist", "touch",
             "memory"}

\* the assembler of the task returned at least one chunk or snippet
Grounded(s) == retrieved[s].value = "list1"

\* C17: the message list sent to the model is one mode-specific system prompt,
\* then one grounding system message if and only if the assembler returned at
\* least one chunk or snippet, then the fetched history with roles and
\* contents unchanged, then one user message with the request text as the
\* last element; with empty history and no grounding it is exactly
\* [system prompt, user message].
C17_PromptOrder ==
  \A s \in Slots :
    Composed(s) =>
      LET m == chat_messages[s]
          g == IF Grounded(s) THEN 1 ELSE 0
          h == history[s]
      IN /\ Len(m) = 1 + g + Len(h) + 1
         /\ m[1] = [role |-> "system", content |-> SystemPrompt(IsCompany(s))]
         /\ g = 1 => m[2] = [role |-> "system", content |-> <<"context">>]
         /\ \A i \in 1..Len(h) :
              /\ m[1 + g + i].role = h[i].role
              /\ m[1 + g + i].content = h[i].content
         /\ m[Len(m)] = [role |-> "user", content |-> text[s]]
         /\ \A i \in 2..Len(m) :
              m[i].content # SystemPrompt(IsCompany(s))
         /\ \A i \in (2 + g)..(Len(m) - 1) : m[i].content # <<"context">>
         /\ (h = <<>> /\ g = 0) =>
              m = <<[role |-> "system",
                     content |-> SystemPrompt(IsCompany(s))],
                    [role |-> "user", content |-> text[s]]>>

\* a prompt with a grounding message and a history of a whole turn
C17_Witness ==
  \E s \in Slots :
    /\ Composed(s)
    /\ Grounded(s)
    /\ Len(history[s]) >= 2
    /\ Len(chat_messages[s]) = Len(history[s]) + 3

\* a first turn with no grounding: the prompt is [system prompt, user message]
C17_WitnessBare ==
  \E s \in Slots :
    /\ Composed(s)
    /\ ~Grounded(s)
    /\ history[s] = <<>>
    /\ Len(chat_messages[s]) = 2

(***************************************************************************)
(* The vector retrieval never blocks a turn.                               *)
(***************************************************************************)
\* the steps of the task in slot s once its request is validated
TaskStep(s) ==
  \/ FetchHistory(s)
  \/ \E in \in RagInputs \cup MemoryInputs : FetchContext(s, in)
  \/ StoreUserMessage(s)
  \/ ReadChunk(s, <<DeltaNames[1]>>, TRUE)
  \/ Resume(s)
  \/ StoreAssistantMessage(s)
  \/ UpdateThreadTimestamp(s)
  \/ CacheTurn(s)
  \/ \E in \in AppendInputs : AppendMemory(s, in)

\* the event loop runs a task on while what it awaits answers
SpecContextFair ==
  Init /\ [][NextContext]_vars /\ \A s \in Slots : WF_vars(TaskStep(s))

\* RAG is disabled, the embedding fails or is empty, or the query fails
Degraded(in) ==
  \/ ~in.enabled
  \/ in.embed \in {"fails", "empty"}
  \/ in.query = "fails"

RagDegradesStep ==
  \A s \in Slots : \A in \in RagInputs :
    (FetchContext(s, in) /\ Degraded(in)) =>
      /\ ~retrieved'[s].raised
      /\ retrieved'[s].value = "list0"
      /\ ~in.enabled => retrieved'[s].calls = {}
      /\ pc'[s] = "storeUser"
      /\ chat_messages'[s] =
           <<ChatMessage("system", SystemPrompt(TRUE))>>
             \o AsChatMessages(history[s])
             \o <<ChatMessage("user", text[s])>>

\* C18: the vector retrieval returns an empty chunk list and raises nothing
\* when RAG is disabled (then with no embedding call and no query), when the
\* embedding call fails or returns no embedding, and when the similarity
\* query fails; the turn then goes on with a prompt of no grounding message
\* and completes.
C18_RagNeverBlocksTurn ==
  /\ [][RagDegradesStep]_vars
  /\ \A s \in Slots :
       (pc[s] = "storeUser" /\ retrieved[s].value = "list0") ~>
         (pc[s] = "done")

\* a turn whose embedding call failed has stored its answer
C18_Witness ==
  \E s \in Slots :
    /\ pc[s] = "touch"
    /\ ~retrieved[s].raised
    /\ retrieved[s].value = "list0"
    /\ retrieved[s].calls = {"embed"}
    /\ Len(chat_messages[s]) = Len(history[s]) + 2
    /\ \E i \in 1..Len(db) : db[i].turn = turn[s] /\ db[i].role = "assistant"

(***************************************************************************)
(* The remote-memory retrieval.                                            *)
(***************************************************************************)
\* C19: for every server URL the request schema accepts, every response and
\* every network outcome, retrieve_memory returns a list and never raises,
\* so a send_mcp_message turn with non-empty text goes on to generation
\* whatever the memory service does or however its URL is formed.
C19_MemoryRetrievalBestEffort ==
  \A s \in Slots :
    (conv[s] \in CacheKeys
       /\ pc[s] \notin {"idle", "rejected", "history", "context"}) =>
      /\ ~retrieved[s].raised
      /\ retrieved[s].value \in {"list0", "list1"}
      /\ pc[s] # "failed"

(***************************************************************************)
(* The memory push.                                                        *)
(***************************************************************************)
\* the cached list of the task's conversation ends with the task's turn
TurnCached(c, s) ==
  /\ c[conv[s]].present
  /\ LastN(c[conv[s]].messages, 2) = <<UserEntry(s), AssistantEntry(s)>>

MemoryPushStep ==
  \A s \in Slots :
    \* the push is reached by the cache write only
    /\ (pc[s] # "memory" /\ pc'[s] = "memory") =>
         (~IsCompany(s) /\ TurnCached(cache', s))
    \* whatever the push meets, the task ends with no delta, no error and
    \* the cache as it was
    /\ (pc[s] = "memory" /\ pc'[s] # "memory" /\ ~NoLen(retrieved[s].value)) =>
         /\ pc'[s] = "done"
         /\ cache' = cache
         /\ deltas'[s] = <<>>
         /\ error'[s] = NoError

\* C20: the memory push is issued only after the turn's cache write, and its
\* outcome (success, 404, any other status, a network failure) gives the
\* caller no delta and no exception and leaves the cached turn as it is; in
\* particular a turn whose memory service answers 404 to the retrieval and to
\* the push completes with its user and assistant entries in the cache.
C20_MemoryPushNeverSurfaces ==
  /\ [][MemoryPushStep]_vars
  /\ [](\A s \in Slots :
          memory_calls[s].append # "none" =>
            /\ pc[s] = "done"
            /\ memory_calls[s].retrieve # "none")

\* the memory service answered 404 to the retrieval and to the push of a
\* turn that is over; the cache holds the turn
C20_Witness ==
  \E s \in Slots :
    /\ memory_calls[s] = [retrieve |-> "404", append |-> "404"]
    /\ pc[s] = "done"
    /\ cache["k1"].present
    /\ Len(cache["k1"].messages) >= 2
    /\ cache["k1"].messages[Len(cache["k1"].messages) - 1].role = "user"
    /\ cache["k1"].messages[Len(cache["k1"].messages)].role = "assistant"
    /\ cache["k1"].messages[Len(cache["k1"].messages)].content = <<"d1">>

(***************************************************************************)
(* Turns one after another over stores whose writes may fail.              *)
(***************************************************************************)
\* send_company_message: the commit of the user message raises
StoreUserMessageFails(s) ==
  /\ pc[s] = "storeUser"
  /\ pc' = [pc EXCEPT ![s] = "failed"]
  /\ EndOfTask(s)
  /\ UNCHANGED stores
  /\ UNCHANGED <<gateway, history_limit, got, redis, memory_calls>>

\* send_company_message: the commit of the assistant message raises
StoreAssistantMessageFails(s) ==
  /\ pc[s] = "persist"
  /\ IsCompany(s)
  /\ pc' = [pc EXCEPT ![s] = "failed"]
  /\ EndOfTask(s)
  /\ UNCHANGED stores
  /\ UNCHANGED <<gateway, history_limit, got, redis, memory_calls>>

\* _cache_messages: Redis raises; except Exception: logger.warning(...)
CacheTurnFails(s) ==
  /\ pc[s] = "persist"
  /\ ~IsCompany(s)
  /\ pc' = [pc EXCEPT ![s] = "memory"]
  /\ UNCHANGED <<stores, locals>>
  /\ UNCHANGED <<gateway, history_limit, got, redis, memory_calls>>

NextStore ==
  \/ \E s \in Slots : \E c \in ConversationsOf(s) :
       /\ \A o \in Slots \ {s} : pc[o] \in {"idle", "done", "failed"}
       /\ Validate(s, c, Text(TurnOf(s)))
  \/ \E s \in Slots : FetchHistory(s)
  \/ \E s \in Slots, n \in 0..1 :
       \E in \in {PlainRag(n), PlainMemory(n)} : FetchContext(s, in)
  \/ \E s \in Slots : StoreUserMessage(s)
  \/ \E s \in Slots : StoreUserMessageFails(s)
  \/ \E s \in Slots : ReadChunk(s, <<DeltaNames[1]>>, TRUE)
  \/ \E s \in Slots : Resume(s)
  \/ \E s \in Slots : StoreAssistantMessage(s)
  \/ \E s \in Slots : StoreAssistantMessageFails(s)
  \/ \E s \in Slots : UpdateThreadTimestamp(s)
  \/ \E s \in Slots : CacheTurn(s)
  \/ \E s \in Slots : CacheTurnFails(s)
  \/ \E s \in Slots : AppendMemory(s, PlainAppend(TRUE))

SpecStore == Init /\ [][NextStore]_vars

\* the task leaves its persist step: its turn is in the store, or the task
\* ends with an exception
StoreWriteSurfacesStep ==
  \A s \in Slots :
    (pc[s] = "persist" /\ pc'[s] # "persist") =>
      \/ pc'[s] = "failed"
      \/ IF IsCompany(s)
         THEN db' = Append(db, AssistantRow(s))
         ELSE TurnCached(cache', s)

\* C21: a failed store write is never silent: if the write that persists a
\* turn (the durable commit, or the cache write of the new list) fails, the
\* turn ends with an error for the caller, so a turn whose output was
\* streamed is never missing from the store without the caller being told.
C21_StoreWriteFailureSurfaces == [][StoreWriteSurfacesStep]_vars

(***************************************************************************)
(* The token count of a turn.                                              *)
(***************************************************************************)
\* C22: the token count recorded with the assistant message of a turn equals
\* the number of deltas forwarded to the caller during the turn, on the
\* success path and on the failure path alike.
C22_TokenCountIsDeltaCount ==
  \A s \in Slots :
    pc[s] = "persist" =>
      /\ AssistantEntry(s).token_count = Len(deltas[s])
      /\ AssistantRow(s).token_count = Len(deltas[s])

(***************************************************************************)
(* Validation of the request text.                                         *)
(***************************************************************************)
\* the entries of the turn of slot s, in the table and in the cache
StoredOfSlot(s) ==
  {i \in 1..Len(db) : db[i].turn = TurnOf(s)}
  \cup UNION {{<<k, i>> : i \in {j \in 1..Len(cache[k].messages) :
                                    cache[k].messages[j].turn = TurnOf(s)}} :
              k \in CacheKeys}

RejectedLeavesNoTrace ==
  \A s \in Slots :
    /\ pc[s] = "rejected" =>
         /\ history[s] = <<>>
         /\ retrieved[s] = NothingRetrieved
         /\ chat_messages[s] = <<>>
         /\ chunks[s] = <<>>
         /\ deltas[s] = <<>>
         /\ memory_calls[s] = NoCalls
         /\ StoredOfSlot(s) = {}
    /\ pc[s] \notin {"idle", "rejected", "done", "closed", "failed"} =>
         text[s] \notin {Empty, Blank}

RejectStep ==
  \A s \in Slots :
    /\ (pc[s] = "idle" /\ pc'[s] = "rejected") =>
         UNCHANGED <<stores, locals, gateway, history_limit, memory_calls>>
    /\ pc[s] = "rejected" => pc'[s] = "rejected"

\* C23: a turn whose text is empty or only whitespace is rejected in the
\* Validate step with no side effect: before any history read, context
\* fetch, model call, store or cache write or memory push, and the stores
\* are unchanged.
C23_BlankTextRejectedFirst ==
  /\ []RejectedLeavesNoTrace
  /\ [][RejectStep]_vars

\* a turn of blank text was rejected after another turn was stored
C23_Witness ==
  \E s \in Slots :
    /\ pc[s] = "rejected"
    /\ db # <<>> \/ \E k \in CacheKeys : cache[k].present

(***************************************************************************)
(* Validation of the identifiers of the MCP chat routes.                   *)
(***************************************************************************)
\* the identifier is not empty and holds letters, digits, '-' and '_' only
OnlyAllowedChars(id) ==
  id # <<>> /\ \A i \in 1..Len(id) : id[i] \in {"a", "-", "_"}

BadPairs ==
  {p \in IdTexts \X IdTexts :
     ~(OnlyAllowedChars(p[1]) /\ OnlyAllowedChars(p[2]))}

\* no key and no answer of the cache comes from a refused identifier
KeysFromAllowedIds ==
  /\ \A r \in redis :
       OnlyAllowedChars(r.server_id) /\ OnlyAllowedChars(r.thread_id)
  /\ got.op \in {"read", "clear"} =>
       OnlyAllowedChars(got.server_id) /\ OnlyAllowedChars(got.thread_id)
  /\ \A p \in BadPairs : ~(IsValidId(p[1]) /\ IsValidId(p[2]))

\* a rejection leaves the keys of Redis as they are
RejectionTouchesNothingStep ==
  (got' # got /\ got'.op = "rejected") => UNCHANGED <<redis, stores>>

\* C24: every MCP chat operation (send, get, clear) rejects, before any cache
\* access, a server_id or thread_id that holds a character other than a
\* letter, a digit, a hyphen or an underscore, or that is empty; no cache key
\* is built from such an identifier.
C24_BadIdentifiersRejected ==
  /\ []KeysFromAllowedIds
  /\ [][RejectionTouchesNothingStep]_vars

\* a request with '..' or '/' in an identifier was rejected while the keys
\* of accepted pairs are in Redis
C24_Witness ==
  /\ got.op = "rejected"
  /\ \E r \in redis : r.thread_id = <<"-", "a">>

(***************************************************************************)
(* Summaries of a thread: CompanyChatService.summarize_thread.             *)
(***************************************************************************)
MaxSummaryRows == 5

\* get_messages(thread_id, limit=50)
SummaryLimit == 50
\* if len(messages) < 5
SummaryThreshold == 5

TooShortResult == <<"Thread too short to summarize.">>
FallbackSummary == <<"Unable to generate summary.">>
SummaryMarker == "[THREAD SUMMARY]: "

\* what ollama_client.generate does: a response with its text, a response
\* without the 'response' key, or an exception
GenerateOutcomes == {"response", "no_response_key", "raises"}

\* a thread of one message less is still too short
TooShortOffByOne(messages) == Len(messages) < SummaryThreshold - 1

\* if len(messages) < 5: return "Thread too short to summarize."
TooShort(messages) == Len(messages) < SummaryThreshold

\* the failure leaves summarize_thread as an exception
summary_failure_raised(calls) ==
  [raised |-> TRUE, result |-> <<>>, generate_calls |-> calls,
   stored |-> FALSE]

\* except Exception as e: return f"Summarization failed: {str(e)}"
summary_failure(calls) ==
  [raised |-> FALSE, result |-> <<"Summarization failed: ", "boom">>,
   generate_calls |-> calls, stored |-> FALSE]

\* response.get('response', 'Unable to generate summary.')
SummaryOf(gen) ==
  IF gen = "response" THEN <<"summary">> ELSE FallbackSummary

\* summarize_thread, given the messages read, the outcome of the generation
\* and whether the commit of the summary message succeeds
summarize_thread(messages, gen, commit) ==
  IF TooShort(messages)
  THEN [raised |-> FALSE, result |-> TooShortResult, generate_calls |-> 0,
        stored |-> FALSE]
  ELSE IF gen = "raises" \/ ~commit THEN summary_failure(1)
  ELSE [raised |-> FALSE, result |-> SummaryOf(gen), generate_calls |-> 1,
        stored |-> TRUE]

\* CompanyChatMessage(role="system", content=f"[THREAD SUMMARY]: {summary}")
SummaryRow(thread, summary) ==
  [id |-> Len(db) + 1, created_at |-> Len(db) + 1, thread_id |-> thread,
   role |-> "system", content |-> <<SummaryMarker>> \o summary,
   model_used |-> "COMPANY_MODEL", token_count |-> 0, turn |-> 0]

SummarizeThread(thread, gen, commit) ==
  /\ Len(db) <= MaxSummaryRows
  /\ \E m \in get_messages(db, thread, SummaryLimit) :
       LET r == summarize_thread(m, gen, commit) IN
       /\ db' = IF r.stored THEN Append(db, SummaryRow(thread, r.result))
                ELSE db
       /\ got' = [op |-> "summarize", key |-> thread, limit |-> SummaryLimit,
                  ok |-> ~r.raised, messages |-> m, result |-> r.result,
                  generate_calls |-> r.generate_calls, gen |-> gen,
                  commit |-> commit]
  /\ UNCHANGED <<cache, threads, pc, locals, gateway, history_limit, redis, memory_calls>>

\* threads of up to MaxSummaryRows messages written one after the other
InitSummary ==
  /\ \E n \in 0..MaxSummaryRows :
       \E th \in [1..n -> Threads] :
         db = [i \in 1..n |-> StoredRow(i, th[i], i)]
  /\ cache = [k \in CacheKeys |-> Absent]
  /\ threads = Threads
  /\ TasksIdle
  /\ max_retries = DefaultMaxRetries
  /\ history_limit = McpHistoryLimit
  /\ GatewayIdle

NextSummary ==
  \E thread \in Threads, gen \in GenerateOutcomes, commit \in BOOLEAN :
    SummarizeThread(thread, gen, commit)

SpecSummary == InitSummary /\ [][NextSummary]_vars

\* the summarize call of this step found fewer than 5 messages in its thread
SummarizeStep ==
  got'.op = "summarize" /\ <<got, db>>' # <<got, db>>

TooShortStep ==
  (SummarizeStep /\ Len(Filter(db, got'.key, 1)) < 5) =>
    /\ got'.ok
    /\ got'.result = TooShortResult
    /\ got'.generate_calls = 0
    /\ db' = db

\* C25: summarize_thread on a thread with fewer than 5 messages returns the
\* fixed "too short" result, makes no model call and writes no message.
C25_ShortThreadNotSummarized == [][TooShortStep]_vars

\* a thread of 4 messages was asked for its summary
C25_Witness ==
  /\ got.op = "summarize"
  /\ got.result = TooShortResult
  /\ Len(Filter(db, got.key, 1)) = 4
  /\ Len(db) = MaxSummaryRows

LongThreadStep ==
  (SummarizeStep /\ Len(Filter(db, got'.key, 1)) >= 5) =>
    /\ got'.ok
    /\ got'.generate_calls = 1
    /\ (got'.gen # "raises" /\ got'.commit) =>
         /\ Len(db') = Len(db) + 1
         /\ \A i \in 1..Len(db) : db'[i] = db[i]
         /\ db'[Len(db')].role = "system"
         /\ db'[Len(db')].thread_id = got'.key
         /\ db'[Len(db')].content = <<"[THREAD SUMMARY]: ">> \o got'.result
         /\ got'.result =
              IF got'.gen = "response" THEN <<"summary">>
              ELSE <<"Unable to generate summary.">>
    /\ (got'.gen = "raises" \/ ~got'.commit) =>
         /\ db' = db
         /\ got'.result = <<"Summarization failed: ", "boom">>

\* C26: summarize_thread on a thread with at least 5 messages: when the
\* generation succeeds, exactly one new system-role message whose content is
\* the fixed marker followed by the summary is appended to that thread and
\* the summary is returned; when the generation fails, nothing is raised, a
\* failure string is returned as the summary and no message is appended.
C26_SummaryStoredOrFailureReturned == [][LongThreadStep]_vars

\* the summary of a thread of 5 messages was stored as its sixth message
C26_Witness ==
  /\ got.op = "summarize"
  /\ got.gen = "response"
  /\ got.result = <<"summary">>
  /\ Len(got.messages) = 5
  /\ Len(Filter(db, got.key, 1)) = 6
  /\ db[Len(db)].role = "system"

\* the generation failed on a thread of 5 messages: a failure string, no row
C26_WitnessFailure ==
  /\ got.op = "summarize"
  /\ got.gen = "raises"
  /\ got.ok
  /\ Len(got.messages) = 5
  /\ Len(db) = 5

(***************************************************************************)
(* Properties of the gateway's inputs and results.                         *)
(***************************************************************************)
\* C27: for every non-empty list of texts and non-empty model name, embed
\* either returns a result that holds exactly len(texts) embeddings or fails
\* with ValidationError; it never returns another number of embeddings and
\* never fails with another kind of error.
C27_EmbedReturnsOnePerText ==
  (g_endpoint = "embed" /\ g_pc = "done"
     /\ g_input.texts >= 1 /\ g_input.model = <<"m">>) =>
    \/ g_result.kind = "returned"
         /\ EmbeddingsIn(g_result.value) = g_input.texts
    \/ g_result = Raised("ValidationError")

\* the input the head of generate, chat or embed refuses
BadInput ==
  \/ g_endpoint = "generate" /\ g_input.prompt \in {<<>>, <<" ">>}
  \/ g_endpoint = "chat" /\ g_input.messages = <<>>
  \/ g_endpoint = "chat"
       /\ \E i \in 1..Len(g_input.messages) :
            g_input.messages[i] \notin {"user", "assistant", "system"}
  \/ g_endpoint = "embed" /\ g_input.texts = 0
  \/ g_endpoint = "embed" /\ g_input.model \in {<<>>, <<" ">>}

\* C28: chat with an empty message list or with a message whose role is
\* outside {user, assistant, system}, embed with no text or a blank model
\* name, and generate with a blank prompt each fail with ValidationError
\* before any request is sent to the model service, streamed or not.
C28_InputValidationFailsFast ==
  (g_pc # "idle" /\ BadInput) =>
    /\ g_pc = "done"
    /\ g_result = Raised("ValidationError")
    /\ sent = 0
    /\ outcomes = <<>>
    /\ slept = <<>>
    /\ yielded = <<>>

\* a streamed chat whose second message has a role of its own was refused
C28_Witness ==
  /\ g_pc = "done"
  /\ g_stream
  /\ g_endpoint = "chat"
  /\ g_input.messages = <<"user", "tool">>
  /\ g_result = Raised("ValidationError")

RECURSIVE SumOf(_)
SumOf(seq) == IF seq = <<>> THEN 0 ELSE Head(seq) + SumOf(Tail(seq))

\* all attempts of the request failed by connection or timeout
RetriesExhausted ==
  /\ g_pc = "done"
  /\ sent = max_retries + 1
  /\ ConnectionOrTimeout(LastOutcome)

\* C29: between failed attempt k (from 0) and the retry that follows it a
\* plain request waits retry_delay * 2^k; no wait follows the last failed
\* attempt, so a request that exhausts its retries has waited max_retries
\* times, retry_delay * (2^max_retries - 1) in total, and a request that
\* succeeds at its first attempt has not waited at all.
C29_ExponentialBackoff ==
  PlainRequest =>
    /\ \A k \in 0..(Len(slept) - 1) :
         /\ slept[k + 1] = retry_delay * (2 ^ k)
         /\ ConnectionOrTimeout(outcomes[k + 1])
    /\ Len(slept) <= max_retries
    /\ Len(slept) \in {Len(outcomes) - 1, Len(outcomes)}
    /\ g_pc = "done" => Len(slept) = sent - 1
    /\ g_pc = "send" => Len(slept) = sent
    /\ RetriesExhausted =>
         /\ Len(slept) = max_retries
         /\ SumOf(slept) = retry_delay * ((2 ^ max_retries) - 1)
    /\ (g_pc = "done" /\ sent = 1) => slept = <<>>

\* the third attempt of a request succeeded, after waits of 1 and of 2
C29_Witness ==
  /\ PlainRequest
  /\ g_pc = "done"
  /\ sent = 3
  /\ g_result.kind = "returned"
  /\ slept = <<retry_delay, 2 * retry_delay>>

(***************************************************************************)
(* What a read finds while a turn is being generated.                      *)
(***************************************************************************)
\* what a read of the conversation of task s can answer now
RecentNow(s) ==
  IF IsCompany(s) THEN get_messages(db, conv[s], CompanyHistoryLimit)
  ELSE {get_cached_messages(cache, conv[s])}

\* C30: no message of a turn is written to the store before the token
\* stream of the turn has ended: while the turn is being generated, a read
\* of its conversation returns neither its user message nor its assistant
\* message, in both modes.
C30_NothingStoredWhileGenerating ==
  \A s \in Slots :
    pc[s] \in {"read", "yielded"} =>
      \A m \in RecentNow(s) :
        \A i \in 1..Len(m) : m[i].turn # turn[s]

(***************************************************************************)
(* The error mapping of a streamed call.                                   *)
(***************************************************************************)
\* the status is one the table has a row for
StatusInTable(o) ==
  /\ o.kind = "response"
  /\ \/ o.status \in {404, 400}
     \/ 500 <= o.status /\ o.status < 600

\* C31: a streamed generate or chat call whose response status is not 200
\* yields no chunk and fails, at the first read of the stream, with the error
\* kind the table gives for the status: ModelError for a 404 that mentions a
\* model, ValidationError for another 404 or a 400, TransportError for 5xx.
C31_StreamErrorFollowsTable ==
  (StreamedRequest /\ g_pc = "done" /\ outcomes # <<>>
     /\ StatusInTable(LastOutcome)) =>
    /\ g_result = Raised(TableKind(LastOutcome))
    /\ yielded = <<>>
    /\ sent = 1


(***************************************************************************)
(* Turns of the per-server assistant that overlap, under every configured  *)
(* history window, with reads, clears, expiry and failures in between.     *)
(***************************************************************************)
MaxWindow == 3

\* McpChatService.__init__: history_limit = settings.MCP_CHAT_HISTORY_LIMIT,
\* an int with no lower bound
InitWindow ==
  /\ OrchestratorIdle
  /\ max_retries = DefaultMaxRetries
  /\ history_limit \in 0..MaxWindow
  /\ GatewayIdle

NextWindow ==
  \/ \E s \in Slots : \E c \in ConversationsOf(s) \cap CacheKeys :
       Validate(s, c, Text(TurnOf(s)))
  \/ \E s \in Slots : FetchHistory(s)
  \/ \E s \in Slots : FetchContext(s, PlainMemory(0))
  \/ \E s \in Slots : ReadChunk(s, <<DeltaNames[1]>>, TRUE)
  \/ \E s \in Slots : Resume(s)
  \/ \E s \in Slots, msg \in ErrorMessages : StreamException(s, msg)
  \/ \E s \in Slots : ResumeAfterError(s)
  \/ \E s \in Slots : Disconnect(s)
  \/ \E s \in Slots : CacheTurn(s)
  \/ \E s \in Slots : CacheTurnFails(s)
  \/ \E s \in Slots : AppendMemory(s, PlainAppend(TRUE))
  \/ \E k \in CacheKeys, up \in BOOLEAN : GetMcpMessages(k, up)
  \/ \E k \in CacheKeys, up \in BOOLEAN : ClearMcpThread(k, up)
  \/ \E k \in CacheKeys : Expire(k)

SpecWindow == InitWindow /\ [][NextWindow]_vars

\* the entries of turn t in a list
EntriesOfTurn(list, t) == {i \in 1..Len(list) : list[i].turn = t}

\* task o went through the same key with the history task s has, and is past
\* its cache write (its frame still holds what it read)
ReadTheSame(s, o) ==
  /\ o # s
  /\ pc[o] = "memory"
  /\ conv[o] = conv[s]
  /\ history[o] = history[s]
  /\ EntriesOfTurn(history[s], turn[o]) = {}

\* the cache write of task s
CacheWriteOf(s) ==
  /\ pc[s] = "persist"
  /\ pc'[s] = "memory"
  /\ cache'[conv[s]] # cache[conv[s]]

OverwriteStep ==
  \A s \in Slots : \A o \in Slots :
    (CacheWriteOf(s) /\ ReadTheSame(s, o)) =>
      /\ EntriesOfTurn(cache'[conv[s]].messages, turn[o]) = {}
      /\ history_limit >= 1 =>
           cache'[conv[s]].messages = LastN(Appended(s), history_limit)

\* C32: when two turns on one key read the same cached history before either
\* wrote, the write of the second replaces the whole value: the key then
\* holds the history they read followed by the two entries of the last
\* writer, cut to the window (of one entry or more), and no entry of the
\* other turn
C32_LastWriterOverwrites == [][OverwriteStep]_vars

\* a read between the two writes returned the entries of the first writer,
\* both turns are past their write, and the key holds the two entries of the
\* second only
C32_Witness ==
  \E s \in Slots : \E o \in Slots :
    /\ ReadTheSame(s, o)
    /\ pc[s] = "memory"
    /\ history_limit = MaxWindow
    /\ got.op = "get" /\ got.key = conv[s] /\ got.ok
    /\ EntriesOfTurn(got.messages, turn[o]) # {}
    /\ cache[conv[s]].messages = <<UserEntry(s), AssistantEntry(s)>>

(***************************************************************************)
(* Requests of the knowledge assistant on one thread that overlap.         *)
(***************************************************************************)
\* where the table holds the rows of turn t with a role
RowsOf(rows, t, role) ==
  {i \in 1..Len(rows) : rows[i].turn = t /\ rows[i].role = role}

TurnNumbers == {TurnOf(s) : s \in Slots}

\* each request's user message once, its assistant message at most once and
\* then after its user message, in the same thread
OwnMessagesInOrder ==
  \A t \in TurnNumbers :
    LET users == RowsOf(db, t, "user")
        assistants == RowsOf(db, t, "assistant")
    IN  /\ Cardinality(users) <= 1
        /\ Cardinality(assistants) <= 1
        /\ \A a \in assistants :
             \E u \in users : u < a /\ db[u].thread_id = db[a].thread_id

\* a request that has stored its assistant message has stored both, once each
BothStoredOnce ==
  \A s \in Slots : pc[s] = "touch" =>
    /\ Cardinality(RowsOf(db, turn[s], "user")) = 1
    /\ Cardinality(RowsOf(db, turn[s], "assistant")) = 1

\* a request that begins when the other is over has stored nothing yet, and
\* every write to the table adds one row after the rows it holds: the rows of
\* the later request stand after those of the earlier
InRequestOrderStep ==
  /\ \A s \in Slots : \A o \in Slots \ {s} :
       (pc[s] = "idle" /\ pc'[s] # "idle"
          /\ pc[o] \in {"done", "closed", "failed"}) =>
         \A role \in {"user", "assistant"} :
           RowsOf(db', TurnOf(s), role) = {}
  /\ db' # db =>
       /\ Len(db') = Len(db) + 1
       /\ \A i \in 1..Len(db) : db'[i] = db[i]

\* C33: however requests of send_company_message on one thread interleave,
\* each request's user message is stored before its own assistant message and
\* each of the two once; a request that begins after another is over has its
\* rows after the other's
C33_OwnMessagesOrdered ==
  [](OwnMessagesInOrder /\ BothStoredOnce) /\ [][InRequestOrderStep]_vars

\* two requests on one thread have interleaved: user 1, user 2, assistant 2,
\* assistant 1
C33_Witness ==
  /\ Len(db) = 4
  /\ \A i \in 1..4 : db[i].thread_id = "t1"
  /\ db[1].turn = 1 /\ db[2].turn = 2 /\ db[3].turn = 2 /\ db[4].turn = 1
  /\ db[3].role = "assistant" /\ db[4].role = "assistant"

\* the last answer of the cache service is a clear of key k that returned
\* True, and the key has not been written since
Cleared(k) == got.op = "clear" /\ got.key = k /\ got.ok /\ ~cache[k].present

\* what a write puts under a cleared key is what a later read returns and a
\* later turn takes as its history: it holds entries of the writing turn only
WriteAfterClearStep ==
  \A s \in Slots :
    (CacheWriteOf(s) /\ Cleared(conv[s])) =>
      \A i \in 1..Len(cache'[conv[s]].messages) :
        cache'[conv[s]].messages[i].turn = turn[s]

\* C34: once clear_mcp_thread(key) has returned True, no entry cached under
\* the key before the clear comes back: the key, which later reads and later
\* turns read, never again holds an entry of a turn written before the clear,
\* also when a turn that was in progress at the clear writes after it
C34_ClearedEntriesStayGone == [][WriteAfterClearStep]_vars

\* in list m every user entry has the assistant entry of its turn next to it
RepliesFollow(m) ==
  \A i \in 1..Len(m) :
    m[i].role = "user" =>
      /\ i < Len(m)
      /\ m[i + 1].role = "assistant"
      /\ m[i + 1].turn = m[i].turn

\* C35: whatever turns, reads and clears have run, under every window, every
\* user entry of a cached list is immediately followed by the assistant entry
\* of the same turn, also after the cut to the window and after a failed
\* generation
C35_UserEntryHasItsReply == \A k \in CacheKeys : RepliesFollow(cache[k].messages)

\* a turn whose generation failed has written, and the cut to a window of 3
\* took the first entry of the list away: assistant 1, user 2, assistant 2
C35_Witness ==
  \E s \in Slots :
    /\ pc[s] = "memory"
    /\ Failed(s)
    /\ history_limit = 3
    /\ Len(history[s]) = 2
    /\ Len(cache[conv[s]].messages) = 3
    /\ cache[conv[s]].messages[1].role = "assistant"
    /\ cache[conv[s]].messages[2] = UserEntry(s)
    /\ cache[conv[s]].messages[3] = AssistantEntry(s)

\* C36: with a history window of 0 every cache write stores an empty list and
\* every read returns an empty list, so the list under a key never grows
C36_WindowZeroStoresNothing ==
  history_limit = 0 =>
    /\ \A k \in CacheKeys : cache[k].messages = <<>>
    /\ got.op = "get" => got.messages = <<>>
    /\ \A s \in Slots : ~IsCompany(s) => history[s] = <<>>


(***************************************************************************)
(* The cache while the clock runs: each key expires TtlTicks ticks after   *)
(* its last write.                                                         *)
(***************************************************************************)
\* one tick of the clock: Redis drops the keys whose time is over
Tick ==
  /\ \E k \in CacheKeys : cache[k].present
  /\ cache' = [k \in CacheKeys |->
                 IF ~cache[k].present THEN cache[k]
                 ELSE IF cache[k].ttl <= 1 THEN Absent
                 ELSE [cache[k] EXCEPT !.ttl = @ - 1,
                                       !.age = IF @ < TtlTicks THEN @ + 1
                                               ELSE @]]
  /\ UNCHANGED <<db, threads, pc, locals, got, gateway, history_limit, redis, memory_calls>>

NextExpiry ==
  \/ \E s \in Slots : \E c \in ConversationsOf(s) \cap CacheKeys :
       Validate(s, c, Text(TurnOf(s)))
  \/ \E s \in Slots : FetchHistory(s)
  \/ \E s \in Slots : FetchContext(s, PlainMemory(0))
  \/ \E s \in Slots : ReadChunk(s, <<DeltaNames[1]>>, TRUE)
  \/ \E s \in Slots : Resume(s)
  \/ \E s \in Slots : CacheTurn(s)
  \/ \E s \in Slots : AppendMemory(s, PlainAppend(TRUE))
  \/ \E k \in CacheKeys, up \in BOOLEAN : GetMcpMessages(k, up)
  \/ Tick

SpecExpiry == Init /\ [][NextExpiry]_vars


\* a key that is there was written less than one TTL ago, and expires one TTL
\* after that write
ExpiryCountedFromWrite ==
  \A k \in CacheKeys : cache[k].present =>
    /\ cache[k].age < TtlTicks
    /\ cache[k].ttl = TtlTicks - cache[k].age

\* the history fetch of task s
HistoryFetchOf(s) == pc[s] = "history" /\ pc'[s] # "history"

\* a read of the cache by get_mcp_messages
ReadOfKey(k) == got' # got /\ got'.op = "get" /\ got'.key = k

ExpiryStep ==
  /\ \A s \in Slots : CacheWriteOf(s) =>
       /\ cache'[conv[s]].present
       /\ cache'[conv[s]].ttl = TtlTicks
       /\ cache'[conv[s]].age = 0
  /\ \A k \in CacheKeys : ReadOfKey(k) =>
       /\ cache' = cache
       /\ ~cache[k].present => got'.messages = <<>>
  /\ \A s \in Slots : HistoryFetchOf(s) =>
       /\ cache' = cache
       /\ ~cache[conv[s]].present =>
            history'[s] = <<>> /\ pc'[s] = "context"

\* C37: every cache write sets the key's expiry to the TTL counted from that
\* write, and neither get_mcp_messages nor the history fetch of a turn changes
\* it: a key that was not written for one TTL is absent; an absent key reads
\* as the empty list, and a turn on it goes on with an empty history
C37_ExpiryFromLastWrite == []ExpiryCountedFromWrite /\ [][ExpiryStep]_vars

\* a turn wrote the key, a read returned its entries, the TTL ran out with no
\* write, and another turn on the key is about to fetch its history
C37_Witness ==
  \E s \in Slots : \E o \in Slots \ {s} :
    /\ pc[o] = "memory"
    /\ pc[s] = "history"
    /\ conv[s] = conv[o]
    /\ ~cache[conv[o]].present
    /\ got.op = "get" /\ got.key = conv[o] /\ got.ok
    /\ got.messages = <<UserEntry(o), AssistantEntry(o)>>


(***************************************************************************)
(* The durable store under turns of the knowledge assistant and summaries, *)
(* also for a thread id that has no row in the threads table.              *)
(***************************************************************************)
\* a table of up to MaxRows messages of one thread; only thread t1 was created
InitDurable ==
  /\ \E n \in 0..MaxRows : \E t \in Threads :
       db = [i \in 1..n |-> StoredRow(i, t, i)]
  /\ cache = [k \in CacheKeys |-> Absent]
  /\ threads = {"t1"}
  /\ TasksIdle
  /\ max_retries = DefaultMaxRetries
  /\ history_limit = McpHistoryLimit
  /\ GatewayIdle

\* turns one after the other while the table is small, each of one delta or
\* failing, with summaries asked at any time
NextDurable ==
  \/ \E s \in Slots : \E c \in Threads :
       /\ \A o \in Slots \ {s} : pc[o] \in {"idle", "done", "failed"}
       /\ Len(db) + 2 <= MaxSummaryRows
       /\ Validate(s, c, Text(TurnOf(s)))
  \/ \E s \in Slots : FetchHistory(s)
  \/ \E s \in Slots : FetchContext(s, PlainRag(0))
  \/ \E s \in Slots : StoreUserMessage(s)
  \/ \E s \in Slots : StoreUserMessageFails(s)
  \/ \E s \in Slots : ReadChunk(s, <<DeltaNames[1]>>, TRUE)
  \/ \E s \in Slots : Resume(s)
  \/ \E s \in Slots, msg \in ErrorMessages : StreamException(s, msg)
  \/ \E s \in Slots : ResumeAfterError(s)
  \/ \E s \in Slots : StoreAssistantMessage(s)
  \/ \E s \in Slots : StoreAssistantMessageFails(s)
  \/ \E s \in Slots : UpdateThreadTimestamp(s)
  \/ \E thread \in Threads, gen \in GenerateOutcomes, commit \in BOOLEAN :
       SummarizeThread(thread, gen, commit)

SpecDurable == InitDurable /\ [][NextDurable]_vars

AppendOnlyStep ==
  /\ Len(db') >= Len(db)
  /\ \A i \in 1..Len(db) : db'[i] = db[i]
  /\ \A t \in Threads : Len(Filter(db', t, 1)) >= Len(Filter(db, t, 1))
  /\ threads' = threads

\* C38: no step of send_company_message or summarize_thread changes or
\* removes a stored message, the number of messages of each thread never
\* decreases, and the threads table holds the same threads after it
C38_DurableStoreAppendOnly == [][AppendOnlyStep]_vars

\* a turn on thread t2, which has no row in the threads table, stored its
\* messages there, a summary of the thread was stored after them, and the
\* thread still has no row
C38_Witness ==
  /\ "t2" \notin threads
  /\ \E i \in 1..Len(db) : \E j \in 1..Len(db) :
       /\ i < j
       /\ db[i].thread_id = "t2" /\ db[i].role = "assistant" /\ db[i].turn > 0
       /\ db[j].thread_id = "t2" /\ db[j].role = "system"
       /\ \E s \in Slots : pc[s] = "done"


(***************************************************************************)
(* The health checks: OllamaClient.list_models and health_check, and       *)
(* McpChatService.health_check.                                            *)
(***************************************************************************)
\* list_models: response = await self._make_request('GET', '/api/tags')
ListModels ==
  /\ g_pc = "idle"
  /\ g_endpoint' = "tags"
  /\ g_input' = NoInput
  /\ g_stream' = FALSE
  /\ attempt' = 0
  /\ g_pc' = "send"
  /\ UNCHANGED <<max_retries, sent, outcomes, slept, g_result, stream_state>>
  /\ UNCHANGED orchestrator

\* list_models, given what _make_request ended in: response.get('models', [])
\* and, under `except Exception`, []; a JSON value that is no object has no
\* get, which ends under the same except clause
list_models(r) ==
  [raised |-> FALSE,
   model_count |-> IF r.kind = "returned" /\ r.value # "json_not_object"
                   THEN ModelsIn(r.value) ELSE 0]

\* OllamaClient.health_check, given what list_models ended in
ollama_health_check(models) ==
  IF models.raised
  THEN [connected |-> FALSE, status |-> "offline", model_count |-> 0]
  ELSE [connected |-> TRUE, status |-> "online",
        model_count |-> models.model_count]

\* McpChatService.health_check, given whether the ping of Redis succeeds and
\* what the gateway's health_check returned
mcp_health_check(redis_up, ollama_health) ==
  [redis_connected |-> redis_up,
   ollama_connected |-> ollama_health.connected,
   status |-> IF ~redis_up \/ ~ollama_health.connected
              THEN "degraded" ELSE "healthy"]

\* the health check of the service, once the list-models request is over
HealthCheck(redis_up) ==
  /\ g_pc = "done"
  /\ g_endpoint = "tags"
  /\ got.op # "health"
  /\ LET oh == ollama_health_check(list_models(g_result)) IN
       got' = [op |-> "health", key |-> "k1", limit |-> 0, ok |-> TRUE,
               messages |-> <<>>, ollama |-> oh,
               mcp |-> mcp_health_check(redis_up, oh)]
  /\ UNCHANGED <<stores, pc, locals, gateway, history_limit, redis, memory_calls>>

NextHealth ==
  \/ ListModels
  \/ \E status \in Statuses, t \in ResponseTexts : Respond(status, t)
  \/ \E e \in TransportExceptions : TransportFails(e)
  \/ Backoff
  \/ \E redis_up \in BOOLEAN : HealthCheck(redis_up)

SpecHealth == InitGateway /\ [][NextHealth]_vars

\* C39: when the list-models request of a health check failed, the gateway's
\* health_check reports connected = false, status offline and no models, and
\* McpChatService.health_check reports ollama_connected = false and status
\* degraded; connected = true is reported only when the model service answered
C39_HealthFollowsModelService ==
  got.op = "health" =>
    /\ g_result.kind = "raised" =>
         /\ ~got.ollama.connected
         /\ got.ollama.status = "offline"
         /\ got.ollama.model_count = 0
         /\ ~got.mcp.ollama_connected
         /\ got.mcp.status = "degraded"
    /\ got.ollama.connected => g_result.kind = "returned"

====
